---- MODULE Spec2Model ----
(***************************************************************************)
(* A model of the Double-DQN dynamic pricing trainer (python-dqn):         *)
(*   ReplayBuffer        src/python-dqn/src/models/replay_buffer.py        *)
(*   PricingEnvironment  src/python-dqn/src/environment/pricing_env.py     *)
(*   reward functions    src/python-dqn/src/utils/reward.py                *)
(*   DQNTrainer          src/python-dqn/src/training/trainer.py            *)
(*                                                                         *)
(* The three objects are the record-valued variables buffer, env and       *)
(* trainer; their fields carry the attribute names of the Python classes.  *)
(* Floating point quantities are fixed-point integers: priorities and TD   *)
(* errors in units of 1e-6, beta, epsilon, rewards and penalties in units  *)
(* of 1e-3, price multipliers in percent.                                  *)
(*                                                                         *)
(*   StateEncoder        src/python-dqn/src/environment/state_encoder.py   *)
(*   policy export       src/python-dqn/scripts/export_policy.py           *)
(*                                                                         *)
(* The specifications share the operations:                                *)
(*   SpecBuffer      any sequence of add / sample / update_priorities      *)
(*   SpecEnv         any sequence of reset / step calls on an environment  *)
(*   Spec            DQNTrainer.train, statement group by statement group  *)
(*   SpecStopping    train() with any episode rewards                      *)
(*   SpecCheckpoint  save_checkpoint / load_checkpoint around train()      *)
(*   SpecEncoder     StateEncoder over any dataset                         *)
(*   SpecReward      the reward functions                                  *)
(*   SpecExport      export_policy over any bin counts                     *)
(*   SpecBeta        buffers with any beta schedule, any call sequence     *)
(*   SpecQuantile    _quantile_bins over any feature array                 *)
(***************************************************************************)
EXTENDS Integers, Sequences, FiniteSets, TLC

VARIABLES
    buffer,     \* the ReplayBuffer object
    env,        \* the PricingEnvironment object
    trainer,    \* the DQNTrainer object and the locals of train()
    buf_call,   \* the last call made on the buffer, with what it returned
    env_call,   \* the last call made on the environment, with what it returned
    ghost,      \* history variables used only by the properties
    export      \* the policy export script (export_policy.py)

vars == <<buffer, env, trainer, buf_call, env_call, ghost, export>>

Min(a, b) == IF a < b THEN a ELSE b
Max(a, b) == IF a > b THEN a ELSE b
Abs(a) == IF a < 0 THEN -a ELSE a

\* Range of a sequence
Range(s) == {s[i] : i \in DOMAIN s}

-----------------------------------------------------------------------------
(* Bounds of the model                                                     *)

\* largest buffer capacity constructed
MaxCapacity == 3
\* largest batch size asked of sample
MaxBatch == 2
\* calls made on the buffer in SpecBuffer
MaxBufferCalls == 5
\* beta_frames of the buffers constructed
BetaFrames == 2
\* number of rows of the dataset
NumRows == 2
\* number of price multipliers (actions)
NumActions == 2
\* calls made on the environment in SpecEnv
MaxEnvCalls == 4

-----------------------------------------------------------------------------
(* State vectors and transitions                                           *)

\* A state vector is identified by what it encodes: the zero vector of a
\* pre-allocated slot, the encoding of a dataset row, or the lossy
\* continuous image of a sampled discrete state.
ZeroState == [src |-> "zeros", id |-> 0]
RowState(idx) == [src |-> "row", id |-> idx]
SyntheticState(d) == [src |-> "synthetic", id |-> d]

\* the content of a never-written slot of the pre-allocated arrays
ZeroTransition ==
    [state |-> ZeroState, action |-> 0, reward |-> 0,
     next_state |-> ZeroState, done |-> FALSE]

Transition(s, a, r, s2, d) ==
    [state |-> s, action |-> a, reward |-> r, next_state |-> s2, done |-> d]

-----------------------------------------------------------------------------
(* ReplayBuffer                                                            *)

\* 1.0 in the fixed-point unit of priorities (1e-6)
PriorityOne == 1000000
\* the epsilon 1e-6 added to |td_error|, in the unit of priorities
PriorityEps == 1
\* beta_start and beta_end defaults, in 1e-3
BetaStart == 400
BetaEnd == 1000

\* ReplayBuffer.__init__
NewBufferWith(capacity, use_per, beta_start, beta_end, beta_frames) ==
    [capacity |-> capacity,
     use_per |-> use_per,
     beta |-> beta_start,
     beta_start |-> beta_start,
     beta_end |-> beta_end,
     beta_frames |-> beta_frames,
     slots |-> [i \in 0..(capacity - 1) |-> ZeroTransition],
     priorities |-> [i \in 0..(capacity - 1) |-> PriorityOne],
     max_priority |-> PriorityOne,
     position |-> 0,
     size |-> 0,
     frame_count |-> 0]

\* a buffer with the default annealing schedule
NewBuffer(capacity, use_per) ==
    NewBufferWith(capacity, use_per, BetaStart, BetaEnd, BetaFrames)

\* mutant of add: the write position is not wrapped at capacity - 1 but reset
\* one slot early, so the last slot is never used
add_mutant(self, t) ==
    [self EXCEPT
        !.slots = [self.slots EXCEPT ![self.position] = t],
        !.priorities = IF self.use_per
                       THEN [self.priorities EXCEPT ![self.position] = self.max_priority]
                       ELSE self.priorities,
        !.position = IF self.position + 1 >= self.capacity - 1 THEN 0
                     ELSE self.position + 1,
        !.size = Min(self.size + 1, self.capacity)]

\* ReplayBuffer.add: the five arrays are one array of transitions
add(self, t) ==
    [self EXCEPT
        !.slots = [self.slots EXCEPT ![self.position] = t],
        !.priorities = IF self.use_per
                       THEN [self.priorities EXCEPT ![self.position] = self.max_priority]
                       ELSE self.priorities,
        !.position = (self.position + 1) % self.capacity,
        !.size = Min(self.size + 1, self.capacity)]

\* ReplayBuffer.__len__
len(self) == self.size

\* ReplayBuffer.is_ready
is_ready(self, min_size) == self.size >= min_size

\* ReplayBuffer.sample, the guard: ValueError when size < batch_size
sample_raises(self, batch_size) == self.size < batch_size

\* injective sequences of length n over the set S: what
\* np.random.choice(.., size=n, replace=False) can return
ChoiceWithoutReplacement(S, n) ==
    {s \in [1..n -> S] : \A i, j \in 1..n : i # j => s[i] # s[j]}

\* mutant of sample_indices: the draw is over the whole pre-allocated array
sample_indices_mutant(self, batch_size) ==
    ChoiceWithoutReplacement(0..(self.capacity - 1), batch_size)

\* ReplayBuffer.sample, the draw: with PER the probabilities are
\* priorities[:size] ** alpha normalised, and an index can be drawn only if
\* its probability is not zero; without PER the draw is uniform
sample_indices(self, batch_size) ==
    IF self.use_per
    THEN ChoiceWithoutReplacement(
             {i \in 0..(self.size - 1) : self.priorities[i] > 0}, batch_size)
    ELSE ChoiceWithoutReplacement(0..(self.size - 1), batch_size)

\* ReplayBuffer.sample, the annealing of beta after a successful draw
\* mutant of sample_anneal: progress is not clamped at 1
sample_anneal_mutant(self) ==
    LET fc == self.frame_count + 1
        progress == (fc * 1000) \div self.beta_frames
    IN  [self EXCEPT
            !.frame_count = fc,
            !.beta = self.beta_start
                     + ((self.beta_end - self.beta_start) * progress) \div 1000]

sample_anneal(self) ==
    LET fc == self.frame_count + 1
        progress == Min(1000, (fc * 1000) \div self.beta_frames)
    IN  [self EXCEPT
            !.frame_count = fc,
            !.beta = self.beta_start
                     + ((self.beta_end - self.beta_start) * progress) \div 1000]

\* what sample returns for the drawn indices: the stored transitions and
\* the indices themselves (the importance weights do not enter any state)
sample_batch(self, indices) ==
    [status |-> "ok",
     indices |-> indices,
     transitions |-> [k \in DOMAIN indices |-> self.slots[indices[k]]]]

\* mutant of sample: frame_count is advanced before the guard
sample_mutant(self, batch_size) ==
    IF sample_raises(self, batch_size)
    THEN {[buffer |-> [self EXCEPT !.frame_count = self.frame_count + 1],
           ret |-> [status |-> "ValueError"]]}
    ELSE {[buffer |-> sample_anneal(self), ret |-> sample_batch(self, indices)] :
             indices \in sample_indices(self, batch_size)}

\* ReplayBuffer.sample: every outcome of one call, the buffer after it and
\* what it returns or raises
sample(self, batch_size) ==
    IF sample_raises(self, batch_size)
    THEN {[buffer |-> self, ret |-> [status |-> "ValueError"]]}
    ELSE {[buffer |-> sample_anneal(self), ret |-> sample_batch(self, indices)] :
             indices \in sample_indices(self, batch_size)}

\* TD errors the trainer can report, in 1e-6
TdErrors == {-2000000, 0}

\* (|td| + 1e-6) ** alpha for alpha = 0.6, tabulated on TdErrors
PriorityOf(td) ==
    CASE Abs(td) + PriorityEps = 1 -> 251
      [] Abs(td) + PriorityEps = 2000001 -> 1515717

MaxOver(S) == CHOOSE m \in S : \A x \in S : x <= m

\* mutant of update_priorities: the running maximum is replaced by the
\* maximum of the new priorities
update_priorities_mutant(self, indices, td_errors) ==
    IF ~self.use_per THEN self
    ELSE LET priorities == [k \in DOMAIN td_errors |-> PriorityOf(td_errors[k])]
             last(i) == MaxOver({k \in DOMAIN indices : indices[k] = i})
         IN  [self EXCEPT
                !.priorities =
                    [i \in DOMAIN self.priorities |->
                        IF i \in Range(indices) THEN priorities[last(i)]
                        ELSE self.priorities[i]],
                !.max_priority =
                    MaxOver(Range(priorities))]

\* ReplayBuffer.update_priorities; indices is a sequence, td_errors a
\* sequence of the same length, later positions overwrite earlier ones
update_priorities(self, indices, td_errors) ==
    IF ~self.use_per THEN self
    ELSE LET priorities == [k \in DOMAIN td_errors |-> PriorityOf(td_errors[k])]
             last(i) == MaxOver({k \in DOMAIN indices : indices[k] = i})
         IN  [self EXCEPT
                !.priorities =
                    [i \in DOMAIN self.priorities |->
                        IF i \in Range(indices) THEN priorities[last(i)]
                        ELSE self.priorities[i]],
                !.max_priority =
                    Max(self.max_priority, MaxOver(Range(priorities)))]

-----------------------------------------------------------------------------
(* Dataset and StateEncoder (what the environment needs of it)             *)

\* The rows of test_pricing_env: qty 10, unit_price 100, freight_price 10,
\* month cycling 1..12, comp_1 95, lag_price 98, inventory_level 50,
\* demand_forecast 12.
RowQty == 10
RowUnitPrice == 100
RowFreightPrice == 10
RowComp == 95
RowLagPrice == 98
RowInventory == 50
RowForecast == 12

Rows ==
    [i \in 0..(NumRows - 1) |->
        [qty |-> RowQty, unit_price |-> RowUnitPrice,
         freight_price |-> RowFreightPrice, month |-> (i % 12) + 1,
         comp_1 |-> RowComp, lag_price |-> RowLagPrice,
         inventory_level |-> RowInventory, demand_forecast |-> RowForecast]]

\* default bin counts of StateEncoder.__init__
demand_bins == 3
competitor_bins == 3
lag_bins == 3
inventory_bins == 3
forecast_bins == 3

\* the values of one column, as a sequence 1..N
Column(f) == [k \in 1..NumRows |-> Rows[k - 1][f]]

\* the subsequence of the values > 0 (the 0 sentinel marks missing data)
RECURSIVE Positive(_)
Positive(s) ==
    IF s = <<>> THEN <<>>
    ELSE IF s[1] > 0 THEN <<s[1]>> \o Positive(Tail(s))
         ELSE Positive(Tail(s))

\* np.sort: insertion of the head into the sorted tail
RECURSIVE Sort(_)
Insert(x, s) ==
    LET n == Cardinality({k \in DOMAIN s : s[k] <= x})
    IN  SubSeq(s, 1, n) \o <<x>> \o SubSeq(s, n + 1, Len(s))
Sort(s) == IF s = <<>> THEN <<>> ELSE Insert(s[1], Sort(Tail(s)))

\* StateEncoder._quantile_bins: thresholds[i] = sorted[int(i / num_bins * N)]
\* (0-based), for i = 1..num_bins-1
\* mutant of quantile_bins: the values are not sorted
quantile_bins_mutant(values, num_bins) ==
    [i \in 1..(num_bins - 1) |-> values[((i * Len(values)) \div num_bins) + 1]]

quantile_bins(values, num_bins) ==
    LET sorted_vals == Sort(values)
    IN  [i \in 1..(num_bins - 1) |->
            sorted_vals[((i * Len(sorted_vals)) \div num_bins) + 1]]

\* StateEncoder._digitize: the first i with value < thresholds[i], else len
digitize(value, thresholds) ==
    LET below == {i \in DOMAIN thresholds : value < thresholds[i]}
    IN  IF below = {} THEN Len(thresholds)
        ELSE (CHOOSE i \in below : \A j \in below : i <= j) - 1

\* StateEncoder.__init__: extended mode when more than 10% of the rows have
\* a positive inventory_level and more than 10% a positive demand_forecast
has_extended_state ==
    /\ Len(Positive(Column("inventory_level"))) * 10 > NumRows
    /\ Len(Positive(Column("demand_forecast"))) * 10 > NumRows

OrDefault(valid) == IF Len(valid) > 0 THEN valid ELSE <<0, 1>>

demand_thresholds == quantile_bins(Column("qty"), demand_bins)
comp_thresholds == quantile_bins(OrDefault(Positive(Column("comp_1"))), competitor_bins)
lag_thresholds == quantile_bins(OrDefault(Positive(Column("lag_price"))), lag_bins)
inventory_thresholds ==
    IF has_extended_state
    THEN quantile_bins(Positive(Column("inventory_level")), inventory_bins)
    ELSE <<0>>
forecast_thresholds ==
    IF has_extended_state
    THEN quantile_bins(Positive(Column("demand_forecast")), forecast_bins)
    ELSE <<0>>

\* StateEncoder.encode_discrete
encode_discrete(row) ==
    [demandBin |-> digitize(row.qty, demand_thresholds),
     competitorPriceBin |-> digitize(row.comp_1, comp_thresholds),
     seasonBin |-> IF row.month <= 2 \/ row.month = 12 THEN 0
                   ELSE IF row.month <= 5 THEN 1
                   ELSE IF row.month <= 8 THEN 2 ELSE 3,
     lagPriceBin |-> digitize(row.lag_price, lag_thresholds),
     inventoryBin |-> IF has_extended_state
                      THEN digitize(row.inventory_level, inventory_thresholds) ELSE 0,
     forecastBin |-> IF has_extended_state
                     THEN digitize(row.demand_forecast, forecast_thresholds) ELSE 0]

\* np.mean of a column (the columns of Rows are constant, so it is exact)
Mean(s) ==
    LET RECURSIVE Sum(_)
        Sum(t) == IF t = <<>> THEN 0 ELSE t[1] + Sum(Tail(t))
    IN  Sum(s) \div Len(s)

base_price == Mean(Column("unit_price"))
base_cost == Mean(Column("freight_price"))
base_qty == Mean(Column("qty"))

-----------------------------------------------------------------------------
(* Reward functions (utils/reward.py), values in 1e-3                      *)

\* mutant of normalize: the distance to the upper end of the range
normalize_mutant(value, min_val, max_val) ==
    IF max_val = min_val THEN 0
    ELSE ((max_val - value) * 1000) \div (max_val - min_val)

\* reward.normalize: 0 for an empty range
normalize(value, min_val, max_val) ==
    IF max_val = min_val THEN 0
    ELSE ((value - min_val) * 1000) \div (max_val - min_val)

\* the volume threshold 0.35
volume_threshold == 350

\* reward.compute_reward; weights and the result in 1e-3
compute_reward(revenue, margin, volume, weights, revenue_range, margin_range, volume_range) ==
    LET norm_revenue == normalize(revenue, revenue_range[1], revenue_range[2])
        norm_margin == normalize(margin, margin_range[1], margin_range[2])
        raw_volume == normalize(volume, volume_range[1], volume_range[2])
        norm_volume == IF raw_volume >= volume_threshold THEN 1000
                       ELSE (raw_volume * 1000) \div volume_threshold
    IN  (weights.revenue * norm_revenue + weights.margin * norm_margin
         + weights.volume * norm_volume) \div 1000

\* mutant of compute_price_change_penalty: the change is taken relative to
\* the current multiplier
compute_price_change_penalty_mutant(prev_multiplier, current_multiplier, penalty_weight) ==
    IF prev_multiplier <= 0 THEN 0
    ELSE (penalty_weight * Abs(current_multiplier - prev_multiplier))
         \div current_multiplier

\* reward.compute_price_change_penalty; multipliers in percent, weight and
\* result in 1e-3
compute_price_change_penalty(prev_multiplier, current_multiplier, penalty_weight) ==
    IF prev_multiplier <= 0 THEN 0
    ELSE (penalty_weight * Abs(current_multiplier - prev_multiplier))
         \div prev_multiplier

-----------------------------------------------------------------------------
(* PricingEnvironment                                                      *)

\* the first NumActions multipliers of [0.8, 0.9, 1.0, 1.1, 1.2], in percent
action_multipliers == [a \in 0..(NumActions - 1) |-> 80 + 10 * a]
\* PricingEnvironment.get_action_dim: num_actions = len(action_multipliers)
get_action_dim == Cardinality(DOMAIN action_multipliers)

\* reward weights {'revenue': 0.4, 'margin': 0.4, 'volume': 0.2}, in 1e-3
RewardWeights == [revenue |-> 400, margin |-> 400, volume |-> 200]

\* default price_change_penalty 0.15, in 1e-3
PriceChangePenalty == 150
\* base elasticity 0.7, in 1e-3
BaseElasticity == 700
\* quantities are in units of 1e-2
QtyScale == 100

\* PricingEnvironment.__init__, the reward normalisation ranges for the
\* base statistics of a dataset (money times quantity, in units of 1e-2)
revenue_range_of(price, qty) ==
    <<(price * 95 * qty * 60 * QtyScale) \div 10000,
      (price * 130 * qty * 110 * QtyScale) \div 10000>>
margin_range_of(price, cost, qty) ==
    <<((price * 95 - cost * 100) * qty * 60 * QtyScale) \div 10000,
      ((price * 130 - cost * 100) * qty * 110 * QtyScale) \div 10000>>
volume_range_of(qty) ==
    <<(qty * 3 * QtyScale) \div 10, (qty * 12 * QtyScale) \div 10>>

\* the ranges of the environment over Rows
revenue_range == revenue_range_of(base_price, base_qty)
margin_range == margin_range_of(base_price, base_cost, base_qty)
volume_range == volume_range_of(base_qty)

\* PricingEnvironment.__init__, the episode state
NewEnv == [current_idx |-> 0, last_action |-> -1]

\* np.clip
Clip(x, lo, hi) == IF x < lo THEN lo ELSE IF x > hi THEN hi ELSE x

\* PricingEnvironment._get_effective_elasticity, factors and result in 1e-3
get_effective_elasticity(discrete_state) ==
    LET demand_factor ==
            1800 - (discrete_state.demandBin * 1200) \div (demand_bins - 1)
        comp_factor ==
            1600 - (discrete_state.competitorPriceBin * 800) \div (competitor_bins - 1)
        season_factor == IF discrete_state.seasonBin = 2 THEN 700
                         ELSE IF discrete_state.seasonBin = 0 THEN 1300 ELSE 1000
        e1 == (BaseElasticity
               * ((((demand_factor * comp_factor) \div 1000) * season_factor) \div 1000))
              \div 1000
        inventory_factor ==
            700 + (discrete_state.inventoryBin * 600) \div (inventory_bins - 1)
        forecast_factor ==
            1200 - (discrete_state.forecastBin * 400) \div (forecast_bins - 1)
        e2 == IF has_extended_state
              THEN (e1 * ((inventory_factor * forecast_factor) \div 1000)) \div 1000
              ELSE e1
    IN  Clip(e2, 50, 4000)

\* np.exp on 1e-3 fixed point: the Taylor series to ExpTerms terms
ExpTerms == 10
RECURSIVE ExpSeries(_, _, _)
ExpSeries(x, k, term) ==
    IF k > ExpTerms THEN 0
    ELSE term + ExpSeries(x, k + 1, (term * x) \div (k * 1000))
Exp(x) == ExpSeries(x, 1, 1000)

\* (price - base_price) / (base_price or 1.0), in 1e-3
price_change_ratio(price) ==
    ((price - base_price * 100) * 1000)
    \div (IF base_price # 0 THEN base_price * 100 ELSE 100)

\* PricingEnvironment._predict_demand; price in 1e-2, result in 1e-2
predict_demand(row, price, discrete_state) ==
    LET effective_elasticity == get_effective_elasticity(discrete_state)
        base_q == IF has_extended_state /\ row.demand_forecast > 0
                  THEN row.demand_forecast ELSE row.qty
        predicted_qty ==
            (base_q * QtyScale
             * Exp(-((effective_elasticity * price_change_ratio(price)) \div 1000)))
            \div 1000
    IN  Max(QtyScale, predicted_qty)

\* revenue, margin, volume and the base reward of selling predicted_qty at
\* price (price in 1e-2 of money, quantities in 1e-2)
Outcome(price, predicted_qty) ==
    LET revenue == (price * predicted_qty) \div 100
        margin == ((price - base_cost * 100) * predicted_qty) \div 100
    IN  [revenue |-> revenue, margin |-> margin, volume |-> predicted_qty,
         price |-> price,
         reward |-> compute_reward(revenue, margin, predicted_qty, RewardWeights,
                                   revenue_range, margin_range, volume_range)]

\* the stability penalty both paths subtract: against last_action, if any
StabilityPenalty(self, multiplier) ==
    IF self.last_action >= 0
    THEN compute_price_change_penalty(action_multipliers[self.last_action],
                                      multiplier, PriceChangePenalty)
    ELSE 0

\* mutant of reset: last_action survives the reset
reset_mutant(self, idx) ==
    [env |-> [self EXCEPT !.current_idx = idx],
     ret |-> [op |-> "reset", status |-> "ok", state |-> RowState(idx)]]

\* PricingEnvironment.reset with the row np.random.randint drew
reset(self, idx) ==
    [env |-> [self EXCEPT !.current_idx = idx, !.last_action = -1],
     ret |-> [op |-> "reset", status |-> "ok", state |-> RowState(idx)]]

\* mutant of real_step: the cursor stops at the last row
real_step_mutant(self, action) ==
    LET row == Rows[self.current_idx]
        discrete_state == encode_discrete(row)
        multiplier == action_multipliers[action]
        price == base_price * multiplier
        o == Outcome(price, predict_demand(row, price, discrete_state))
        penalty == StabilityPenalty(self, multiplier)
        next_idx == Min(self.current_idx + 1, NumRows - 1)
    IN  [env |-> [self EXCEPT !.last_action = action, !.current_idx = next_idx],
         ret |-> [op |-> "step", status |-> "ok", use_synthetic |-> FALSE, action |-> action,
                  next_state |-> RowState(next_idx),
                  reward |-> o.reward - penalty,
                  done |-> FALSE,
                  info |-> [revenue |-> o.revenue, margin |-> o.margin,
                            volume |-> o.volume, price |-> o.price],
                  market |-> RowState(self.current_idx),
                  penalty |-> penalty,
                  penalty_against |-> self.last_action]]

\* PricingEnvironment.step, the real data path
real_step(self, action) ==
    LET row == Rows[self.current_idx]
        discrete_state == encode_discrete(row)
        multiplier == action_multipliers[action]
        price == base_price * multiplier
        o == Outcome(price, predict_demand(row, price, discrete_state))
        penalty == StabilityPenalty(self, multiplier)
        next_idx == (self.current_idx + 1) % NumRows
    IN  [env |-> [self EXCEPT !.last_action = action, !.current_idx = next_idx],
         ret |-> [op |-> "step", status |-> "ok", use_synthetic |-> FALSE, action |-> action,
                  next_state |-> RowState(next_idx),
                  reward |-> o.reward - penalty,
                  done |-> FALSE,
                  info |-> [revenue |-> o.revenue, margin |-> o.margin,
                            volume |-> o.volume, price |-> o.price],
                  market |-> RowState(self.current_idx),
                  penalty |-> penalty,
                  penalty_against |-> self.last_action]]

\* the discrete states and the noise factors (1e-3) the model lets the
\* synthetic path draw
SyntheticDraws ==
    {[discrete_state |->
         [demandBin |-> b, competitorPriceBin |-> b, seasonBin |-> b,
          lagPriceBin |-> b,
          inventoryBin |-> IF has_extended_state THEN b ELSE 0,
          forecastBin |-> IF has_extended_state THEN b ELSE 0],
      noise |-> n] : b \in {0, demand_bins - 1}, n \in {900}}

\* mutant of synthetic_step: last_action is updated as on the real path
synthetic_step_mutant(self, action, draw) ==
    [env |-> [self EXCEPT !.last_action = action],
     ret |-> [op |-> "step", status |-> "ok", use_synthetic |-> TRUE, action |-> action,
              next_state |-> SyntheticState(draw.discrete_state),
              reward |-> 0, done |-> FALSE,
              info |-> [revenue |-> 0, margin |-> 0, volume |-> 0, price |-> 0],
              market |-> SyntheticState(draw.discrete_state),
              penalty |-> 0,
              penalty_against |-> self.last_action]]

\* PricingEnvironment._synthetic_step with what np.random drew
synthetic_step(self, action, draw) ==
    LET discrete_state == draw.discrete_state
        multiplier == action_multipliers[action]
        price == base_price * multiplier
        effective_elasticity == get_effective_elasticity(discrete_state)
        demand_scale == 600 + (discrete_state.demandBin * 500) \div (demand_bins - 1)
        base_q == (base_qty * QtyScale * demand_scale) \div 1000
        predicted_qty ==
            Max(QtyScale,
                (((base_q
                   * Exp(-((effective_elasticity * price_change_ratio(price)) \div 1000)))
                  \div 1000) * draw.noise) \div 1000)
        o == Outcome(price, predicted_qty)
        penalty == StabilityPenalty(self, multiplier)
    IN  [env |-> self,
         ret |-> [op |-> "step", status |-> "ok", use_synthetic |-> TRUE, action |-> action,
                  next_state |-> SyntheticState(discrete_state),
                  reward |-> o.reward - penalty,
                  done |-> FALSE,
                  info |-> [revenue |-> o.revenue, margin |-> o.margin,
                            volume |-> o.volume, price |-> o.price],
                  market |-> SyntheticState(discrete_state),
                  penalty |-> penalty,
                  penalty_against |-> self.last_action]]

\* PricingEnvironment.step
step(self, action, use_synthetic, draw) ==
    IF use_synthetic THEN synthetic_step(self, action, draw)
    ELSE real_step(self, action)

-----------------------------------------------------------------------------
(* History variables                                                       *)

\* calls: calls made so far on the object under test
\* added: the transitions passed to add, in call order
\* reset_called: whether reset was ever called on the environment
\* prev_env_call: the environment call before the last one
\* real_before: the action of the last real step before the last call
\*              (since the last reset), or -1
\* cursor_before: the row cursor before the last environment call
\* run_start, run_len: the row cursor at the start of the current run of
\*     consecutive real steps, and the length of that run
\* samples: the successful sample calls made on the buffer under test
\* at_save: the trainer at the last save_checkpoint("model.pt") call
\* loaded: the file name of the last load_checkpoint call
\* env_steps, adds, trains, decays: calls of env.step, buffer.add and
\*     train_step and epsilon decays made by train() so far
\* log: what the current loop iteration has done, in order
\* eps_history: the values epsilon has had, from epsilon_start on
\* eps_selected: the epsilon values action selection used in this episode
NewGhost ==
    [calls |-> 0, added |-> <<>>, reset_called |-> FALSE,
     prev_env_call |-> [op |-> "init"], real_before |-> -1, real_last |-> -1,
     env_steps |-> 0, adds |-> 0, trains |-> 0, decays |-> 0,
     log |-> <<>>, eps_history |-> <<>>, eps_selected |-> {},
     at_save |-> [pc |-> "absent"], loaded |-> "",
     cursor_before |-> 0, run_start |-> 0, run_len |-> 0, samples |-> 0]

NoCall == [op |-> "init"]
NoObject == [pc |-> "absent"]

-----------------------------------------------------------------------------
(* SpecBuffer: a ReplayBuffer under any sequence of calls                  *)

\* transitions the callers of SpecBuffer add: they differ in the action
TestTransitions ==
    {Transition(RowState(0), a, 0, RowState(0), FALSE) : a \in {0, 1}}

InitBuffer ==
    /\ \E capacity \in 1..MaxCapacity, use_per \in BOOLEAN :
          buffer = NewBuffer(capacity, use_per)
    /\ env = NoObject
    /\ trainer = NoObject
    /\ buf_call = NoCall
    /\ env_call = NoCall
    /\ ghost = NewGhost
    /\ export = NoObject

AddCall ==
    /\ ghost.calls < MaxBufferCalls
    /\ \E t \in TestTransitions :
          /\ buffer' = add(buffer, t)
          /\ buf_call' = [op |-> "add", seq |-> ghost.calls + 1, transition |-> t]
          /\ ghost' = [ghost EXCEPT !.calls = @ + 1, !.added = Append(@, t)]
    /\ UNCHANGED <<env, trainer, env_call>>
    /\ UNCHANGED export

SampleCall ==
    /\ ghost.calls < MaxBufferCalls
    /\ \E batch_size \in 1..MaxBatch :
          \E o \in sample(buffer, batch_size) :
             /\ buffer' = o.buffer
             /\ buf_call' = [op |-> "sample", seq |-> ghost.calls + 1,
                             batch_size |-> batch_size, ret |-> o.ret]
             /\ ghost' = [ghost EXCEPT
                             !.calls = @ + 1,
                             !.samples = IF o.ret.status = "ok" THEN @ + 1 ELSE @]
    /\ UNCHANGED <<env, trainer, env_call>>
    /\ UNCHANGED export

\* update_priorities with indices some earlier sample can have returned
\* (size never shrinks) and any TD errors
UpdatePrioritiesCall ==
    /\ ghost.calls < MaxBufferCalls
    /\ \E n \in 1..MaxBatch :
          \E indices \in ChoiceWithoutReplacement(0..(buffer.size - 1), n) :
             \E td_errors \in [1..n -> TdErrors] :
                /\ buffer' = update_priorities(buffer, indices, td_errors)
                /\ buf_call' = [op |-> "update_priorities", seq |-> ghost.calls + 1,
                                indices |-> indices, td_errors |-> td_errors]
    /\ ghost' = [ghost EXCEPT !.calls = @ + 1]
    /\ UNCHANGED <<env, trainer, env_call>>
    /\ UNCHANGED export

NextBuffer == AddCall \/ SampleCall \/ UpdatePrioritiesCall

SpecBuffer == InitBuffer /\ [][NextBuffer]_vars

-----------------------------------------------------------------------------
(* SpecBeta: ReplayBuffers with any annealing schedule under any sequence  *)
(* of calls                                                                *)

\* (beta_start, beta_end, beta_frames) in 1e-3: the defaults over
\* BetaFrames sampling calls, a schedule that is over after one call, and
\* one whose start is above its end (the constructor does not compare them)
BetaSchedules ==
    {<<BetaStart, BetaEnd, BetaFrames>>, <<BetaStart, BetaEnd, 1>>,
     <<BetaEnd, BetaStart, BetaFrames>>}

InitBeta ==
    /\ \E capacity \in {1, 2}, use_per \in BOOLEAN, b \in BetaSchedules :
          buffer = NewBufferWith(capacity, use_per, b[1], b[2], b[3])
    /\ env = NoObject
    /\ trainer = NoObject
    /\ buf_call = NoCall
    /\ env_call = NoCall
    /\ ghost = NewGhost
    /\ export = NoObject

SpecBeta == InitBeta /\ [][NextBuffer]_vars

-----------------------------------------------------------------------------
(* SpecEnv: a PricingEnvironment under any sequence of calls               *)

InitEnv ==
    /\ buffer = NoObject
    /\ env = NewEnv
    /\ trainer = NoObject
    /\ buf_call = NoCall
    /\ env_call = NoCall
    /\ ghost = NewGhost
    /\ export = NoObject

ResetCall ==
    /\ ghost.calls < MaxEnvCalls
    /\ \E idx \in 0..(NumRows - 1) :
          LET r == reset(env, idx)
          IN  /\ env' = r.env
              /\ env_call' = [r.ret EXCEPT !.op = "reset"] @@ [seq |-> ghost.calls + 1]
    /\ ghost' = [ghost EXCEPT !.calls = @ + 1, !.reset_called = TRUE,
                              !.prev_env_call = env_call,
                              !.real_before = ghost.real_last,
                              !.real_last = -1,
                              !.cursor_before = env.current_idx,
                              !.run_start = env'.current_idx,
                              !.run_len = 0]
    /\ UNCHANGED <<buffer, trainer, buf_call>>
    /\ UNCHANGED export

StepCall ==
    /\ ghost.calls < MaxEnvCalls
    /\ \E action \in 0..(NumActions - 1), use_synthetic \in BOOLEAN :
          \E draw \in SyntheticDraws :
             LET r == step(env, action, use_synthetic, draw)
             IN  /\ env' = r.env
                 /\ env_call' = r.ret @@ [seq |-> ghost.calls + 1]
                 /\ ghost' = [ghost EXCEPT
                                 !.calls = @ + 1,
                                 !.prev_env_call = env_call,
                                 !.real_before = ghost.real_last,
                                 !.real_last = IF use_synthetic THEN @ ELSE action,
                                 !.cursor_before = env.current_idx,
                                 !.run_start = IF use_synthetic
                                               THEN r.env.current_idx ELSE @,
                                 !.run_len = IF use_synthetic THEN 0 ELSE @ + 1]
    /\ UNCHANGED <<buffer, trainer, buf_call>>
    /\ UNCHANGED export

NextEnv == ResetCall \/ StepCall

SpecEnv == InitEnv /\ [][NextEnv]_vars

-----------------------------------------------------------------------------
(* DQNTrainer                                                              *)

\* -float('inf'), the initial best_avg_reward
NegInf == -2000000000

\* synthetic_ratio 0.3 (1e-3): np.random.random() < ratio can come out
\* either way when 0 < ratio < 1
synthetic_ratio == 300
SyntheticChoices ==
    IF synthetic_ratio <= 0 THEN {FALSE}
    ELSE IF synthetic_ratio >= 1000 THEN {TRUE} ELSE BOOLEAN

\* the draws of the synthetic path inside train()
TrainerDraws == {d \in SyntheticDraws : d.discrete_state.demandBin = 0}

\* DQNTrainer.__init__ for a configuration cfg
NewTrainer(cfg) ==
    [config |-> cfg,
     episodes |-> cfg.episodes,
     steps_per_episode |-> cfg.steps_per_episode,
     batch_size |-> cfg.batch_size,
     warmup_steps |-> cfg.warmup_steps,
     train_frequency |-> cfg.train_frequency,
     epsilon |-> cfg.epsilon_start,
     epsilon_end |-> cfg.epsilon_end,
     epsilon_decay |-> cfg.epsilon_decay,
     patience |-> cfg.patience,
     min_delta |-> cfg.min_delta,
     window_size |-> cfg.window_size,
     reward_window |-> <<>>,
     best_avg_reward |-> NegInf,
     episodes_without_improvement |-> 0,
     total_steps |-> 0,
     episode_rewards |-> <<>>,
     \* the parameters: online_net counts optimizer steps, target_net lists
     \* the online versions blended into it (a copy of version 0 at first)
     online_net |-> 0,
     target_net |-> <<0>>,
     \* the width of the output layer of both networks
     action_dim |-> get_action_dim,
     \* checkpoint files written, in order, and their contents
     saved |-> <<>>,
     \* what train() has returned
     metrics |-> <<>>,
     \* locals of train() and train_step()
     pc |-> "for_episode",
     episode |-> 0,
     step |-> 0,
     state |-> ZeroState,
     action |-> 0,
     next_state |-> ZeroState,
     reward |-> 0,
     done |-> FALSE,
     episode_reward |-> 0,
     loss_count |-> 0,
     indices |-> <<>>,
     td_errors |-> <<>>]

\* DQNTrainer.save_checkpoint: the bundle written under filename
save_checkpoint(self, filename) ==
    [self EXCEPT !.saved = Append(@,
        [filename |-> filename,
         online_net_state_dict |-> self.online_net,
         target_net_state_dict |-> self.target_net,
         episode |-> Len(self.episode_rewards),
         total_steps |-> self.total_steps,
         epsilon |-> self.epsilon,
         best_avg_reward |-> self.best_avg_reward,
         config |-> self.config])]

\* torch.load of filename: what the last save under that name wrote
load_file(self, filename) ==
    LET written == {i \in DOMAIN self.saved : self.saved[i].filename = filename}
    IN  self.saved[CHOOSE i \in written : \A j \in written : j <= i]

\* mutant of load_checkpoint: total_steps is not restored
load_checkpoint_mutant(self, filename) ==
    LET checkpoint == load_file(self, filename)
    IN  [self EXCEPT !.online_net = checkpoint.online_net_state_dict,
                     !.target_net = checkpoint.target_net_state_dict,
                     !.epsilon = checkpoint.epsilon,
                     !.best_avg_reward = checkpoint.best_avg_reward]

\* DQNTrainer.load_checkpoint: the networks (and the optimizer), epsilon,
\* best_avg_reward and total_steps are taken from the file; nothing else
\* of the trainer changes
load_checkpoint(self, filename) ==
    LET checkpoint == load_file(self, filename)
    IN  [self EXCEPT !.online_net = checkpoint.online_net_state_dict,
                     !.target_net = checkpoint.target_net_state_dict,
                     !.epsilon = checkpoint.epsilon,
                     !.best_avg_reward = checkpoint.best_avg_reward,
                     !.total_steps = checkpoint.total_steps]

\* mutant of decay_epsilon: the multiplicative decay without the floor
decay_epsilon_mutant(self) ==
    (self.epsilon * self.epsilon_decay) \div 1000

\* the epsilon schedule of train(): max(epsilon_end, epsilon * epsilon_decay)
decay_epsilon(self) ==
    Max(self.epsilon_end, (self.epsilon * self.epsilon_decay) \div 1000)

\* mutant of should_train: the step index of the current episode takes the
\* place of the cumulative step count
should_train_mutant(self, buf) ==
    /\ is_ready(buf, self.warmup_steps)
    /\ (self.step + 1) % self.train_frequency = 0

\* the training trigger of train()
should_train(self, buf) ==
    /\ is_ready(buf, self.warmup_steps)
    /\ self.total_steps % self.train_frequency = 0

\* mutant of window_append: a window without maxlen
window_append_mutant(window, maxlen, x) ==
    Append(window, x)

\* deque(maxlen=window_size).append
window_append(window, maxlen, x) ==
    LET w == Append(window, x)
    IN  IF Len(w) > maxlen THEN SubSeq(w, Len(w) - maxlen + 1, Len(w)) ELSE w

\* np.mean of the reward window
SeqSum(s) ==
    LET RECURSIVE Sum(_)
        Sum(t) == IF t = <<>> THEN 0 ELSE t[1] + Sum(Tail(t))
    IN  Sum(s)
\* np.mean of an empty window (a window_size of 0) is nan
NaN == -1999999999
window_mean(window) ==
    IF window = <<>> THEN NaN ELSE SeqSum(window) \div Len(window)

\* mutant of is_improvement: the first mean is compared like any other
is_improvement_mutant(self, avg_reward) ==
    /\ avg_reward # NaN
    /\ self.best_avg_reward # NegInf
    /\ avg_reward > self.best_avg_reward + self.min_delta

\* avg_reward > self.best_avg_reward + self.min_delta: any number is above
\* -inf + min_delta, and no comparison with nan is true
is_improvement(self, avg_reward) ==
    /\ avg_reward # NaN
    /\ \/ self.best_avg_reward = NegInf
       \/ avg_reward > self.best_avg_reward + self.min_delta

\* train(), lines 287-291: the episode loop head and env.reset()
EpisodeStart ==
    /\ trainer.pc = "for_episode"
    /\ trainer.episode < trainer.episodes
    /\ \E idx \in 0..(NumRows - 1) :
          LET r == reset(env, idx)
          IN  /\ env' = r.env
              /\ env_call' = r.ret @@ [seq |-> ghost.calls + 1]
              /\ trainer' = [trainer EXCEPT
                                !.state = r.ret.state,
                                !.episode_reward = 0,
                                !.loss_count = 0,
                                !.step = 0,
                                !.pc = "for_step"]
    /\ ghost' = [ghost EXCEPT !.calls = @ + 1, !.reset_called = TRUE,
                              !.prev_env_call = env_call,
                              !.real_before = ghost.real_last,
                              !.real_last = -1,
                              !.eps_selected = {}]
    /\ UNCHANGED <<buffer, buf_call>>
    /\ UNCHANGED export

\* train(), lines 293-295: the step loop head and select_action, which
\* returns a random action or the arg-max of the online network
\* mutant of select_action: the upper bound of the random draw is inclusive
select_action_mutant(self, state, epsilon) ==
    (IF epsilon > 0 THEN 0..get_action_dim ELSE {})
    \cup (IF epsilon < 1000 THEN 0..(self.action_dim - 1) ELSE {})

\* DQNTrainer.select_action: the actions it can return; np.random.random()
\* is in [0, 1), so it explores only if epsilon > 0 and is greedy only if
\* epsilon < 1, and argmax is an index into the action_dim outputs
select_action(self, state, epsilon) ==
    (IF epsilon > 0 THEN 0..(get_action_dim - 1) ELSE {})
    \cup (IF epsilon < 1000 THEN 0..(self.action_dim - 1) ELSE {})

SelectAction ==
    /\ trainer.pc = "for_step"
    /\ trainer.step < trainer.steps_per_episode
    /\ \E action \in select_action(trainer, trainer.state, trainer.epsilon) :
          trainer' = [trainer EXCEPT !.action = action, !.pc = "env_step"]
    /\ ghost' = [ghost EXCEPT !.log = <<"select_action">>,
                              !.eps_selected = @ \cup {trainer.epsilon}]
    /\ UNCHANGED <<buffer, env, buf_call, env_call>>
    /\ UNCHANGED export

\* train(), lines 297-299: env.step on the real or the synthetic path
EnvStep ==
    /\ trainer.pc = "env_step"
    /\ \E use_synthetic \in SyntheticChoices, draw \in TrainerDraws :
          LET r == step(env, trainer.action, use_synthetic, draw)
          IN  /\ env' = r.env
              /\ env_call' = r.ret @@ [seq |-> ghost.calls + 1]
              /\ trainer' = [trainer EXCEPT
                                !.next_state = r.ret.next_state,
                                !.reward = r.ret.reward,
                                !.done = r.ret.done,
                                !.pc = "store"]
              /\ ghost' = [ghost EXCEPT
                              !.calls = @ + 1,
                              !.env_steps = @ + 1,
                              !.log = Append(@, "env_step"),
                              !.prev_env_call = env_call,
                              !.real_before = ghost.real_last,
                              !.real_last = IF use_synthetic THEN @ ELSE trainer.action]
    /\ UNCHANGED <<buffer, buf_call>>
    /\ UNCHANGED export

\* mutant of StoreTransition: transitions of the synthetic path are not
\* stored
StoreTransition_mutant ==
    /\ trainer.pc = "store"
    /\ LET t == Transition(trainer.state, trainer.action, trainer.reward,
                           trainer.next_state, trainer.done)
       IN  IF env_call.use_synthetic
           THEN UNCHANGED <<buffer, buf_call, ghost>>
           ELSE /\ buffer' = add(buffer, t)
                /\ buf_call' = [op |-> "add", seq |-> ghost.adds + 1,
                                transition |-> t]
                /\ ghost' = [ghost EXCEPT !.adds = @ + 1,
                                          !.log = Append(@, "add")]
    /\ trainer' = [trainer EXCEPT !.pc = "count"]
    /\ UNCHANGED <<env, env_call>>
    /\ UNCHANGED export

\* train(), lines 301-302: replay_buffer.add
StoreTransition ==
    /\ trainer.pc = "store"
    /\ LET t == Transition(trainer.state, trainer.action, trainer.reward,
                           trainer.next_state, trainer.done)
       IN  /\ buffer' = add(buffer, t)
           /\ buf_call' = [op |-> "add", seq |-> ghost.adds + 1, transition |-> t]
    /\ trainer' = [trainer EXCEPT !.pc = "count"]
    /\ ghost' = [ghost EXCEPT !.adds = @ + 1, !.log = Append(@, "add")]
    /\ UNCHANGED <<env, env_call>>
    /\ UNCHANGED export

\* mutant of CountStep: epsilon decays after every step instead of after
\* every episode
CountStep_mutant ==
    /\ trainer.pc = "count"
    /\ LET counted == [trainer EXCEPT
                          !.episode_reward = @ + trainer.reward,
                          !.state = trainer.next_state,
                          !.total_steps = @ + 1,
                          !.epsilon = decay_epsilon(trainer)]
       IN  trainer' = IF should_train(counted, buffer)
                      THEN [counted EXCEPT !.pc = "train_sample"]
                      ELSE [counted EXCEPT !.step = @ + 1, !.pc = "for_step"]
    /\ UNCHANGED <<buffer, env, buf_call, env_call, ghost>>
    /\ UNCHANGED export

\* train(), lines 304-310: the bookkeeping of the step and the training
\* trigger
CountStep ==
    /\ trainer.pc = "count"
    /\ LET counted == [trainer EXCEPT
                          !.episode_reward = @ + trainer.reward,
                          !.state = trainer.next_state,
                          !.total_steps = @ + 1]
       IN  trainer' = IF should_train(counted, buffer)
                      THEN [counted EXCEPT !.pc = "train_sample"]
                      ELSE [counted EXCEPT !.step = @ + 1, !.pc = "for_step"]
    /\ UNCHANGED <<buffer, env, buf_call, env_call, ghost>>
    /\ UNCHANGED export

\* train_step(), lines 190-192: replay_buffer.sample(batch_size); the
\* ValueError of sample is not caught anywhere and ends train()
TrainSample ==
    /\ trainer.pc = "train_sample"
    /\ \E o \in sample(buffer, trainer.batch_size) :
          /\ buffer' = o.buffer
          /\ buf_call' = [op |-> "sample", seq |-> ghost.trains + 1,
                          batch_size |-> trainer.batch_size, ret |-> o.ret]
          /\ trainer' = IF o.ret.status = "ok"
                        THEN [trainer EXCEPT !.indices = o.ret.indices,
                                             !.pc = "train_optimize"]
                        ELSE [trainer EXCEPT !.pc = "raised"]
    /\ ghost' = [ghost EXCEPT !.trains = @ + 1, !.log = Append(@, "train_step")]
    /\ UNCHANGED <<env, env_call>>
    /\ UNCHANGED export

\* train_step(), lines 194-240: TD errors of the batch, loss, backward pass
\* and optimizer.step() on the online network
TrainOptimize ==
    /\ trainer.pc = "train_optimize"
    /\ \E td_errors \in [DOMAIN trainer.indices -> TdErrors] :
          trainer' = [trainer EXCEPT !.td_errors = td_errors,
                                     !.online_net = @ + 1,
                                     !.pc = "train_soft_update"]
    /\ UNCHANGED <<buffer, env, buf_call, env_call, ghost>>
    /\ UNCHANGED export

\* train_step() line 243 and _soft_update_target: the target parameters
\* are blended with the current online parameters
\* mutant of TrainSoftUpdate: the target parameters are left as they are
TrainSoftUpdate_mutant ==
    /\ trainer.pc = "train_soft_update"
    /\ trainer' = [trainer EXCEPT !.pc = "train_update_priorities"]
    /\ UNCHANGED <<buffer, env, buf_call, env_call, ghost>>
    /\ UNCHANGED export

TrainSoftUpdate ==
    /\ trainer.pc = "train_soft_update"
    /\ trainer' = [trainer EXCEPT !.target_net = Append(@, trainer.online_net),
                                  !.pc = "train_update_priorities"]
    /\ UNCHANGED <<buffer, env, buf_call, env_call, ghost>>
    /\ UNCHANGED export

\* train_step() lines 245-248 and train() lines 311-313
TrainUpdatePriorities ==
    /\ trainer.pc = "train_update_priorities"
    /\ buffer' = update_priorities(buffer, trainer.indices, trainer.td_errors)
    /\ buf_call' = [op |-> "update_priorities", seq |-> ghost.trains,
                    indices |-> trainer.indices, td_errors |-> trainer.td_errors]
    /\ trainer' = [trainer EXCEPT !.loss_count = @ + 1,
                                  !.step = @ + 1,
                                  !.pc = "for_step"]
    /\ UNCHANGED <<env, env_call, ghost>>
    /\ UNCHANGED export

\* train(), lines 315-316, once the step loop is exhausted
DecayEpsilon ==
    /\ trainer.pc = "for_step"
    /\ trainer.step >= trainer.steps_per_episode
    /\ trainer' = [trainer EXCEPT !.epsilon = decay_epsilon(trainer),
                                  !.pc = "end_episode"]
    /\ ghost' = [ghost EXCEPT !.decays = @ + 1,
                              !.log = <<>>,
                              !.eps_history = Append(@, decay_epsilon(trainer))]
    /\ UNCHANGED <<buffer, env, buf_call, env_call>>
    /\ UNCHANGED export

\* mutant of EndEpisode: the stagnation counter is not reset when the
\* window mean improves
EndEpisode_mutant ==
    /\ trainer.pc = "end_episode"
    /\ LET tracked == [trainer EXCEPT
                          !.episode_rewards = Append(@, trainer.episode_reward),
                          !.reward_window =
                              window_append(@, trainer.window_size,
                                            trainer.episode_reward)]
           full == Len(tracked.reward_window) = trainer.window_size
           avg_reward == window_mean(tracked.reward_window)
           improved == is_improvement(tracked, avg_reward)
           checked ==
               IF ~full THEN tracked
               ELSE IF improved
               THEN save_checkpoint(
                        [tracked EXCEPT !.best_avg_reward = avg_reward],
                        "best_model.pt")
               ELSE [tracked EXCEPT !.episodes_without_improvement = @ + 1]
           stop == full /\ checked.episodes_without_improvement >= trainer.patience
       IN  trainer' = IF stop
                      THEN [checked EXCEPT !.pc = "save_final"]
                      ELSE [checked EXCEPT !.episode = @ + 1, !.pc = "for_episode"]
    /\ UNCHANGED <<buffer, env, buf_call, env_call, ghost>>
    /\ UNCHANGED export

\* train(), lines 318-341: metrics, the reward window and early stopping
EndEpisode ==
    /\ trainer.pc = "end_episode"
    /\ LET tracked == [trainer EXCEPT
                          !.episode_rewards = Append(@, trainer.episode_reward),
                          !.reward_window =
                              window_append(@, trainer.window_size,
                                            trainer.episode_reward)]
           full == Len(tracked.reward_window) = trainer.window_size
           avg_reward == window_mean(tracked.reward_window)
           improved == is_improvement(tracked, avg_reward)
           checked ==
               IF ~full THEN tracked
               ELSE IF improved
               THEN save_checkpoint(
                        [tracked EXCEPT !.best_avg_reward = avg_reward,
                                        !.episodes_without_improvement = 0],
                        "best_model.pt")
               ELSE [tracked EXCEPT !.episodes_without_improvement = @ + 1]
           stop == full /\ checked.episodes_without_improvement >= trainer.patience
       IN  trainer' = IF stop
                      THEN [checked EXCEPT !.pc = "save_final"]
                      ELSE [checked EXCEPT !.episode = @ + 1, !.pc = "for_episode"]
    /\ UNCHANGED <<buffer, env, buf_call, env_call, ghost>>
    /\ UNCHANGED export

\* train(), the episode loop is exhausted
EpisodesExhausted ==
    /\ trainer.pc = "for_episode"
    /\ trainer.episode >= trainer.episodes
    /\ trainer' = [trainer EXCEPT !.pc = "save_final"]
    /\ UNCHANGED <<buffer, env, buf_call, env_call, ghost>>
    /\ UNCHANGED export

\* train(), lines 353-360: the final checkpoint and the return
\* epsilon_decay ** n in 1e-3
RECURSIVE PowMilli(_, _)
PowMilli(d, n) == IF n = 0 THEN 1000 ELSE (PowMilli(d, n - 1) * d) \div 1000

\* DQNTrainer._get_training_metrics: one entry per completed episode (the
\* loss values are not tracked here)
get_training_metrics(self) ==
    [k \in 1..Len(self.episode_rewards) |->
        [episode |-> k,
         reward |-> self.episode_rewards[k],
         epsilon |-> self.epsilon_end
                     + ((1000 - self.epsilon_end)
                        * PowMilli(self.epsilon_decay, k - 1)) \div 1000]]

\* train(), lines 353-360: the final checkpoint and the returned metrics
SaveFinal ==
    /\ trainer.pc = "save_final"
    /\ trainer' = [save_checkpoint(trainer, "final_model.pt") EXCEPT
                      !.metrics = get_training_metrics(trainer),
                      !.pc = "done"]
    /\ UNCHANGED <<buffer, env, buf_call, env_call, ghost>>
    /\ UNCHANGED export

\* the configurations train() is run with (the config dictionary is not
\* validated): a base configuration, and families that vary the training
\* trigger, the exploration schedule and the early stopping rule around it
BaseConfig ==
    [episodes |-> 2, steps_per_episode |-> 2, batch_size |-> 1,
     warmup_steps |-> 1, train_frequency |-> 2, buffer_size |-> 2,
     use_per |-> TRUE,
     epsilon_start |-> 1000, epsilon_end |-> 400, epsilon_decay |-> 500,
     patience |-> 1, min_delta |-> 0, window_size |-> 2]

\* three episodes of one step each
ShortEpisodes ==
    [BaseConfig EXCEPT !.episodes = 3, !.steps_per_episode = 1,
                       !.window_size = 1]

TriggerConfigs ==
    {ShortEpisodes,
     [ShortEpisodes EXCEPT !.warmup_steps = 2, !.train_frequency = 1],
     [ShortEpisodes EXCEPT !.warmup_steps = 2, !.train_frequency = 1,
                           !.batch_size = 2],
     [ShortEpisodes EXCEPT !.warmup_steps = 3],
     [ShortEpisodes EXCEPT !.batch_size = 2, !.train_frequency = 1],
     [ShortEpisodes EXCEPT !.use_per = FALSE, !.train_frequency = 1]}

EpsilonConfigs ==
    {[ShortEpisodes EXCEPT !.epsilon_start = 50, !.epsilon_end = 100],
     [ShortEpisodes EXCEPT !.epsilon_start = 200, !.epsilon_end = 100,
                           !.epsilon_decay = 1500],
     [ShortEpisodes EXCEPT !.epsilon_end = 10, !.epsilon_decay = 995]}

StoppingConfigs ==
    {[ShortEpisodes EXCEPT !.patience = 2, !.min_delta = 100]}

TrainerConfigs ==
    {BaseConfig} \cup TriggerConfigs \cup EpsilonConfigs \cup StoppingConfigs

Init ==
    /\ \E cfg \in TrainerConfigs :
          /\ trainer = NewTrainer(cfg)
          /\ buffer = NewBuffer(cfg.buffer_size, cfg.use_per)
          /\ ghost = [NewGhost EXCEPT !.eps_history = <<cfg.epsilon_start>>]
    /\ env = NewEnv
    /\ buf_call = NoCall
    /\ env_call = NoCall
    /\ export = NoObject

Next ==
    \/ EpisodeStart
    \/ SelectAction
    \/ EnvStep
    \/ StoreTransition
    \/ CountStep
    \/ TrainSample
    \/ TrainOptimize
    \/ TrainSoftUpdate
    \/ TrainUpdatePriorities
    \/ DecayEpsilon
    \/ EndEpisode
    \/ EpisodesExhausted
    \/ SaveFinal

Spec == Init /\ [][Next]_vars

-----------------------------------------------------------------------------
(* StateEncoder over any dataset; continuous features in 1e-3              *)

MinOver(S) == CHOOSE m \in S : \A x \in S : m <= x

\* the values of field f of a dataset (a sequence of rows)
ColumnOf(rows, f) == [k \in DOMAIN rows |-> rows[k][f]]

\* np.mean in 1e-3
MeanMilli(s) == (SeqSum(s) * 1000) \div Len(s)

\* min and max of the valid values of a column, (0, 1) when there are none
RangeOf(valid) ==
    IF Len(valid) > 0
    THEN [min |-> MinOver(Range(valid)), max |-> MaxOver(Range(valid))]
    ELSE [min |-> 0, max |-> 1]

\* mutant of extended_mode: at least 10% in place of more than 10%
extended_mode_mutant(rows) ==
    /\ Len(Positive(ColumnOf(rows, "inventory_level"))) * 10 >= Len(rows)
    /\ Len(Positive(ColumnOf(rows, "demand_forecast"))) * 10 >= Len(rows)

\* StateEncoder.__init__, the test for extended mode: more than 10% of the
\* rows have a positive inventory_level, and more than 10% of the rows have
\* a positive demand_forecast
extended_mode(rows) ==
    /\ Len(Positive(ColumnOf(rows, "inventory_level"))) * 10 > Len(rows)
    /\ Len(Positive(ColumnOf(rows, "demand_forecast"))) * 10 > Len(rows)

\* StateEncoder.__init__: the mode, the normalization ranges (over the
\* positive values for comp_1, lag_price, inventory_level and
\* demand_forecast) and the base statistics
NewEncoder(rows) ==
    LET extended == extended_mode(rows)
    IN  [rows |-> rows,
         has_extended_state |-> extended,
         qty |-> RangeOf(ColumnOf(rows, "qty")),
         price |-> RangeOf(ColumnOf(rows, "unit_price")),
         comp |-> RangeOf(Positive(ColumnOf(rows, "comp_1"))),
         lag |-> RangeOf(Positive(ColumnOf(rows, "lag_price"))),
         inv |-> IF extended
                 THEN RangeOf(Positive(ColumnOf(rows, "inventory_level")))
                 ELSE [min |-> 0, max |-> 1],
         forecast |-> IF extended
                      THEN RangeOf(Positive(ColumnOf(rows, "demand_forecast")))
                      ELSE [min |-> 0, max |-> 1],
         base_price |-> MeanMilli(ColumnOf(rows, "unit_price")),
         base_cost |-> MeanMilli(ColumnOf(rows, "freight_price")),
         base_qty |-> MeanMilli(ColumnOf(rows, "qty"))]

\* StateEncoder._normalize: (value - min) / (max - min), 0 for an empty
\* range; no clipping
StateEncoder_normalize(value, min_val, max_val) ==
    IF max_val = min_val THEN 0
    ELSE ((value - min_val) * 1000) \div (max_val - min_val)

\* math.sin and math.cos of 2 pi month / 12
SeasonSin(month) ==
    <<500, 866, 1000, 866, 500, 0, -500, -866, -1000, -866, -500, 0>>[month]
SeasonCos(month) ==
    <<866, 500, 0, -500, -866, -1000, -866, -500, 0, 500, 866, 1000>>[month]

\* StateEncoder.encode_continuous: the 9 features, in the order of the
\* returned array
encode_continuous(self, row) ==
    <<StateEncoder_normalize(row.qty, self.qty.min, self.qty.max),
      StateEncoder_normalize(row.comp_1, self.comp.min, self.comp.max),
      SeasonSin(row.month),
      SeasonCos(row.month),
      StateEncoder_normalize(row.lag_price, self.lag.min, self.lag.max),
      IF self.has_extended_state
      THEN StateEncoder_normalize(row.inventory_level, self.inv.min, self.inv.max)
      ELSE 500,
      IF self.has_extended_state
      THEN StateEncoder_normalize(row.demand_forecast,
                                  self.forecast.min, self.forecast.max)
      ELSE 500,
      \* _normalize(price - cost, 0, base_price)
      IF self.base_price = 0 THEN 0
      ELSE ((row.unit_price - row.freight_price) * 1000000) \div self.base_price,
      StateEncoder_normalize(row.unit_price, self.price.min, self.price.max)>>

-----------------------------------------------------------------------------
(* SpecEncoder: a StateEncoder built from any dataset, and calls of        *)
(* encode_continuous on the rows of that dataset                           *)

\* the number of encode_continuous calls
MaxEncoderCalls == 2

\* the rows of the small datasets: 0 in comp_1, lag_price, inventory_level
\* and demand_forecast is the sentinel of a missing value
SmallRows ==
    [qty : {5, 10}, unit_price : {50, 100}, freight_price : {10},
     month : {1}, comp_1 : {0, 90, 100}, lag_price : {0, 98},
     inventory_level : {0, 50}, demand_forecast : {0, 12}]

\* a dataset of ten rows, inventory_level present in the first n_inv rows
\* and demand_forecast present in n_fc rows, from row first_fc on
TenRows(n_inv, n_fc, first_fc) ==
    [k \in 1..10 |->
        [qty |-> 10, unit_price |-> 100, freight_price |-> 10, month |-> k,
         comp_1 |-> 95, lag_price |-> 98,
         inventory_level |-> IF k <= n_inv THEN 50 ELSE 0,
         demand_forecast |->
             IF k >= first_fc /\ k < first_fc + n_fc THEN 12 ELSE 0]]

\* three rows that differ in comp_1: missing, 90 and 100
SentinelRows ==
    [k \in 1..3 |->
        [qty |-> 10, unit_price |-> 100, freight_price |-> 10, month |-> k,
         comp_1 |-> <<0, 90, 100>>[k], lag_price |-> 98,
         inventory_level |-> 50, demand_forecast |-> 12]]

Datasets ==
    {<<r1, r2>> : r1 \in SmallRows, r2 \in SmallRows}
    \cup {SentinelRows}
    \cup {TenRows(n_inv, n_fc, first_fc) :
             n_inv \in 0..2, n_fc \in 0..2, first_fc \in {1, 3}}

InitEncoder ==
    /\ \E rows \in Datasets : env = [pc |-> "dataset", rows |-> rows]
    /\ buffer = NoObject
    /\ trainer = NoObject
    /\ buf_call = NoCall
    /\ env_call = NoCall
    /\ ghost = NewGhost
    /\ export = NoObject

\* StateEncoder(rows)
ConstructEncoder ==
    /\ env.pc = "dataset"
    /\ env' = [pc |-> "encoder", encoder |-> NewEncoder(env.rows)]
    /\ env_call' = [op |-> "StateEncoder", seq |-> ghost.calls + 1]
    /\ ghost' = [ghost EXCEPT !.calls = @ + 1]
    /\ UNCHANGED <<buffer, trainer, buf_call>>
    /\ UNCHANGED export

\* encoder.encode_continuous(rows[k]) for a row of the dataset
EncodeContinuousCall ==
    /\ env.pc = "encoder"
    /\ ghost.calls < 1 + MaxEncoderCalls
    /\ \E k \in DOMAIN env.encoder.rows :
          env_call' = [op |-> "encode_continuous", seq |-> ghost.calls + 1,
                       row |-> k,
                       ret |-> encode_continuous(env.encoder,
                                                 env.encoder.rows[k])]
    /\ ghost' = [ghost EXCEPT !.calls = @ + 1]
    /\ UNCHANGED <<buffer, env, trainer, buf_call>>
    /\ UNCHANGED export

NextEncoder == ConstructEncoder \/ EncodeContinuousCall

SpecEncoder == InitEncoder /\ [][NextEncoder]_vars

-----------------------------------------------------------------------------
(* SpecReward: the reward functions as an environment calls them           *)

\* the number of calls
MaxRewardCalls == 2

\* base statistics (price, cost, qty) of the datasets: those of the test
\* rows, an empty demand, and freight costs above the price
BaseStatistics ==
    {<<100, 10, 10>>, <<10, 10, 10>>, <<100, 10, 0>>,
     <<10, 20, 10>>, <<100, 200, 10>>}

\* reward weights of the configurations
WeightChoices ==
    {RewardWeights, [revenue |-> 0, margin |-> 1000, volume |-> 0]}

\* revenue and margin (money times quantity, 1e-2) and volume (1e-2) of a
\* step, and multipliers (percent, -1 for none) and penalty weights (1e-3)
RevenueValues == {0, 60000, 120000}
MarginValues == {-60000, 20000, 80000}
VolumeValues == {200, 1000}
MultiplierValues == {-1, 0, 80, 90, 120}
PenaltyWeights == {0, 150}

InitReward ==
    /\ \E b \in BaseStatistics, weights \in WeightChoices :
          env = [pc |-> "reward",
                 reward_weights |-> weights,
                 revenue_range |-> revenue_range_of(b[1], b[3]),
                 margin_range |-> margin_range_of(b[1], b[2], b[3]),
                 volume_range |-> volume_range_of(b[3])]
    /\ buffer = NoObject
    /\ trainer = NoObject
    /\ buf_call = NoCall
    /\ env_call = NoCall
    /\ ghost = NewGhost
    /\ export = NoObject

\* compute_reward with the weights and ranges of the environment
ComputeRewardCall ==
    /\ ghost.calls < MaxRewardCalls
    /\ \E revenue \in RevenueValues, margin \in MarginValues,
          volume \in VolumeValues :
          env_call' = [op |-> "compute_reward", seq |-> ghost.calls + 1,
                       revenue |-> revenue, margin |-> margin,
                       volume |-> volume,
                       ret |-> compute_reward(revenue, margin, volume,
                                              env.reward_weights,
                                              env.revenue_range,
                                              env.margin_range,
                                              env.volume_range)]
    /\ ghost' = [ghost EXCEPT !.calls = @ + 1, !.prev_env_call = env_call]
    /\ UNCHANGED <<buffer, env, trainer, buf_call>>
    /\ UNCHANGED export

\* compute_price_change_penalty
PenaltyCall ==
    /\ ghost.calls < MaxRewardCalls
    /\ \E prev \in MultiplierValues, cur \in MultiplierValues \ {-1, 0},
          w \in PenaltyWeights :
          env_call' = [op |-> "compute_price_change_penalty",
                       seq |-> ghost.calls + 1,
                       prev_multiplier |-> prev, current_multiplier |-> cur,
                       penalty_weight |-> w,
                       ret |-> compute_price_change_penalty(prev, cur, w)]
    /\ ghost' = [ghost EXCEPT !.calls = @ + 1, !.prev_env_call = env_call]
    /\ UNCHANGED <<buffer, env, trainer, buf_call>>
    /\ UNCHANGED export

NextReward == ComputeRewardCall \/ PenaltyCall

SpecReward == InitReward /\ [][NextReward]_vars

-----------------------------------------------------------------------------
(* Policy export (scripts/export_policy.py)                                *)

\* the largest bin count of a discretization config
MaxBins == 2

\* the concatenation of a sequence of sequences
RECURSIVE ConcatSeq(_)
ConcatSeq(ss) == IF ss = <<>> THEN <<>> ELSE ss[1] \o ConcatSeq(Tail(ss))

\* mutant of generate_discrete_states: the lag loop encloses the season loop
generate_discrete_states_mutant(d_bins, c_bins, s_bins, l_bins, i_bins, f_bins, extended) ==
    LET inv_range == IF extended THEN i_bins ELSE 1
        fcst_range == IF extended THEN f_bins ELSE 1
    IN  ConcatSeq([d \in 1..d_bins |->
         ConcatSeq([c \in 1..c_bins |->
          ConcatSeq([l \in 1..l_bins |->
           ConcatSeq([m \in 1..s_bins |->
            ConcatSeq([i \in 1..inv_range |->
             [f \in 1..fcst_range |->
                [demandBin |-> d - 1, competitorPriceBin |-> c - 1,
                 seasonBin |-> m - 1, lagPriceBin |-> l - 1,
                 inventoryBin |-> i - 1, forecastBin |-> f - 1]]])])])])])

\* generate_discrete_states: the six nested loops, each appending to the
\* list; the inventory and forecast loops run over [0] outside extended mode
generate_discrete_states(d_bins, c_bins, s_bins, l_bins, i_bins, f_bins, extended) ==
    LET inv_range == IF extended THEN i_bins ELSE 1
        fcst_range == IF extended THEN f_bins ELSE 1
    IN  ConcatSeq([d \in 1..d_bins |->
         ConcatSeq([c \in 1..c_bins |->
          ConcatSeq([m \in 1..s_bins |->
           ConcatSeq([l \in 1..l_bins |->
            ConcatSeq([i \in 1..inv_range |->
             [f \in 1..fcst_range |->
                [demandBin |-> d - 1, competitorPriceBin |-> c - 1,
                 seasonBin |-> m - 1, lagPriceBin |-> l - 1,
                 inventoryBin |-> i - 1, forecastBin |-> f - 1]]])])])])])

\* StateEncoder.get_total_discrete_states for an encoder with the given bin
\* counts and mode
get_total_discrete_states(self) ==
    IF self.has_extended_state
    THEN self.demand_bins * self.competitor_bins * 4 * self.lag_bins
         * self.inventory_bins * self.forecast_bins
    ELSE self.demand_bins * self.competitor_bins * 4 * self.lag_bins

\* the trained networks: what q_values.argmax() is for a state vector
Networks == {"first_action", "by_demand"}
argmax_action(network, continuous_state) ==
    IF network = "first_action" THEN 0
    ELSE continuous_state.id.demandBin % NumActions

\* config['discretization']
DiscretizationConfigs ==
    [demand_bins : 1..MaxBins, competitor_bins : 1..MaxBins,
     lag_price_bins : 1..MaxBins, inventory_bins : 1..MaxBins,
     forecast_bins : 1..MaxBins]

InitExport ==
    /\ \E disc_cfg \in DiscretizationConfigs, network \in Networks :
          export = [pc |-> "start", disc_cfg |-> disc_cfg, network |-> network]
    /\ buffer = NoObject
    /\ env = NoObject
    /\ trainer = NoObject
    /\ buf_call = NoCall
    /\ env_call = NoCall
    /\ ghost = NewGhost

\* export_policy, lines 119-151: the mode is taken from the bin counts, the
\* states are generated, and the encoder built for the conversion is put
\* into that mode
ExportGenerate ==
    /\ export.pc = "start"
    /\ LET cfg == export.disc_cfg
           extended == cfg.inventory_bins > 1 /\ cfg.forecast_bins > 1
       IN  export' = [pc |-> "query",
                      disc_cfg |-> cfg,
                      network |-> export.network,
                      has_extended_state |-> extended,
                      discrete_states |->
                          generate_discrete_states(
                              cfg.demand_bins, cfg.competitor_bins, 4,
                              cfg.lag_price_bins, cfg.inventory_bins,
                              cfg.forecast_bins, extended),
                      encoder |-> [demand_bins |-> cfg.demand_bins,
                                   competitor_bins |-> cfg.competitor_bins,
                                   lag_bins |-> cfg.lag_price_bins,
                                   inventory_bins |-> cfg.inventory_bins,
                                   forecast_bins |-> cfg.forecast_bins,
                                   has_extended_state |-> extended],
                      idx |-> 0,
                      policy |-> <<>>]
    /\ UNCHANGED <<buffer, env, trainer, buf_call, env_call, ghost>>

\* export_policy, lines 153-163: one pass of the loop over
\* enumerate(discrete_states); policy[idx] is kept at position idx + 1
ExportQuery ==
    /\ export.pc = "query"
    /\ export.idx < Len(export.discrete_states)
    /\ LET discrete_state == export.discrete_states[export.idx + 1]
           continuous_state == SyntheticState(discrete_state)
           action == argmax_action(export.network, continuous_state)
       IN  export' = [export EXCEPT !.policy = Append(@, action),
                                    !.idx = @ + 1]
    /\ UNCHANGED <<buffer, env, trainer, buf_call, env_call, ghost>>

\* export_policy, line 168: the loop is exhausted
ExportReturn ==
    /\ export.pc = "query"
    /\ export.idx >= Len(export.discrete_states)
    /\ export' = [export EXCEPT !.pc = "done"]
    /\ UNCHANGED <<buffer, env, trainer, buf_call, env_call, ghost>>

NextExport == ExportGenerate \/ ExportQuery \/ ExportReturn

SpecExport == InitExport /\ [][NextExport]_vars

-----------------------------------------------------------------------------
(* SpecQuantile: _quantile_bins applied to any feature array               *)

\* the longest feature array, the largest feature value and the largest
\* number of bins
MaxValues == 3
MaxFeature == 3
MaxNumBins == 3

FeatureArrays ==
    UNION {[1..n -> 1..MaxFeature] : n \in 1..MaxValues}

InitQuantile ==
    /\ \E values \in FeatureArrays : env = [pc |-> "values", values |-> values]
    /\ buffer = NoObject
    /\ trainer = NoObject
    /\ buf_call = NoCall
    /\ env_call = NoCall
    /\ ghost = NewGhost
    /\ export = NoObject

QuantileBinsCall ==
    /\ env.pc = "values"
    /\ ghost.calls < 1
    /\ \E num_bins \in 1..MaxNumBins :
          env_call' = [op |-> "_quantile_bins", values |-> env.values,
                       num_bins |-> num_bins,
                       ret |-> quantile_bins(env.values, num_bins)]
    /\ ghost' = [ghost EXCEPT !.calls = @ + 1]
    /\ UNCHANGED <<buffer, env, trainer, buf_call>>
    /\ UNCHANGED export

NextQuantile == QuantileBinsCall

SpecQuantile == InitQuantile /\ [][NextQuantile]_vars

-----------------------------------------------------------------------------
(* SpecStopping: train() seen from its episode loop; what an episode       *)
(* returns is any reward                                                   *)

\* bounds of the runs of SpecStopping
MaxStopEpisodes == 5
MaxPatience == 2
MaxWindow == 2
MaxReward == 2

\* the episode rewards the step loop can produce (1e-3)
EpisodeRewardValues == 0..MaxReward

\* the early stopping configurations: any budget (the empty one included),
\* patience, window and min_delta (the config is not validated, so
\* min_delta can be negative and window_size can be 0)
StoppingRuns ==
    {[BaseConfig EXCEPT !.episodes = e, !.patience = p, !.window_size = w,
                        !.min_delta = d] :
        e \in {0, MaxStopEpisodes}, p \in 0..MaxPatience, w \in 0..MaxWindow,
        d \in {-1, 0, 1}}

InitStopping ==
    /\ \E cfg \in StoppingRuns :
          /\ trainer = NewTrainer(cfg)
          /\ ghost = [NewGhost EXCEPT !.eps_history = <<cfg.epsilon_start>>]
    /\ buffer = NoObject
    /\ env = NoObject
    /\ buf_call = NoCall
    /\ env_call = NoCall
    /\ export = NoObject

\* train(), lines 287-316: one pass of the episode loop up to the epsilon
\* decay; the step loop has made steps_per_episode steps and summed their
\* rewards to episode_reward
RunEpisode ==
    /\ trainer.pc = "for_episode"
    /\ trainer.episode < trainer.episodes
    /\ \E episode_reward \in EpisodeRewardValues :
          trainer' = [trainer EXCEPT
                         !.episode_reward = episode_reward,
                         !.step = trainer.steps_per_episode,
                         !.total_steps = @ + trainer.steps_per_episode,
                         !.epsilon = decay_epsilon(trainer),
                         !.pc = "end_episode"]
    /\ ghost' = [ghost EXCEPT
                    !.env_steps = @ + trainer.steps_per_episode,
                    !.adds = @ + trainer.steps_per_episode,
                    !.decays = @ + 1,
                    !.eps_history = Append(@, decay_epsilon(trainer))]
    /\ UNCHANGED <<buffer, env, buf_call, env_call>>
    /\ UNCHANGED export

NextStopping ==
    \/ RunEpisode
    \/ EndEpisode
    \/ EpisodesExhausted
    \/ SaveFinal

SpecStopping == InitStopping /\ [][NextStopping]_vars

-----------------------------------------------------------------------------
(* SpecCheckpoint: a script that trains, saves the trainer under           *)
(* model.pt before or after train(), and loads a checkpoint into a newly   *)
(* constructed trainer                                                     *)

\* the number of save_checkpoint("model.pt") calls of the script
MaxSaves == 2

\* train() is not running: it has not started, or it has returned
OutsideTrain ==
    \/ trainer.pc = "done"
    \/ trainer.pc = "for_episode" /\ trainer.episode = 0
          /\ trainer.episode_rewards = <<>>

\* trainer.save_checkpoint("model.pt"), as in the usage note of trainer.py
SaveCall ==
    /\ OutsideTrain
    /\ Cardinality({i \in DOMAIN trainer.saved :
                       trainer.saved[i].filename = "model.pt"}) < MaxSaves
    /\ trainer' = save_checkpoint(trainer, "model.pt")
    /\ ghost' = [ghost EXCEPT !.at_save = trainer]
    /\ UNCHANGED <<buffer, env, buf_call, env_call>>
    /\ UNCHANGED export

\* DQNTrainer(env, config) followed by load_checkpoint(filename); the
\* checkpoint directory stays what it is
LoadCall ==
    /\ OutsideTrain
    /\ \E filename \in {trainer.saved[i].filename : i \in DOMAIN trainer.saved} :
          /\ trainer' = [load_checkpoint(
                            [NewTrainer(trainer.config) EXCEPT
                                !.saved = trainer.saved],
                            filename)
                         EXCEPT !.pc = "loaded"]
          /\ ghost' = [ghost EXCEPT !.loaded = filename]
    /\ UNCHANGED <<buffer, env, buf_call, env_call>>
    /\ UNCHANGED export

NextCheckpoint ==
    \/ RunEpisode
    \/ EndEpisode
    \/ EpisodesExhausted
    \/ SaveFinal
    \/ SaveCall
    \/ LoadCall

SpecCheckpoint == InitStopping /\ [][NextCheckpoint]_vars

-----------------------------------------------------------------------------
(* Properties of the ReplayBuffer (checked under SpecBuffer)               *)

\* C1: the buffer is a ring. After n add calls on a buffer of capacity C,
\* len(buffer) = min(n, C) <= C, every slot below size holds a transition
\* that was added, and the k-th add (0-based) is in slot k mod C as long as
\* add number k + C has not been made: the retained transitions are exactly
\* the last min(n, C) added.
C1_RingBuffer ==
    LET n == Len(ghost.added)
        C == buffer.capacity
    IN  /\ len(buffer) = Min(n, C)
        /\ buffer.size <= C
        /\ buffer.position = n % C
        /\ \A i \in 0..(buffer.size - 1) : buffer.slots[i] \in Range(ghost.added)
        /\ \A k \in 0..(n - 1) :
              k + C >= n => buffer.slots[k % C] = ghost.added[k + 1]
        /\ \A i \in 0..(C - 1) :
              i >= n => buffer.slots[i] = ZeroTransition

\* C1 witness: the buffer has wrapped around, the slot overwritten last
\* holds a transition other than the one the same slot held before
C1_Witness ==
    LET n == Len(ghost.added)
        C == buffer.capacity
    IN  /\ C > 1
        /\ n > C + 1
        /\ buffer.size = C
        /\ ghost.added[n] # ghost.added[n - C]
        /\ buffer.slots[(n - 1) % C] = ghost.added[n]

\* C2: a sample call made while size < batch_size raises and returns no
\* batch, and leaves every field of the buffer as it was.
C2_SampleInsufficientFails ==
    [][(/\ buf_call' # buf_call
        /\ buf_call'.op = "sample"
        /\ buffer.size < buf_call'.batch_size)
       => (/\ buf_call'.ret = [status |-> "ValueError"]
           /\ buffer' = buffer)]_vars

\* C2 witness: a sample call has failed on a buffer that holds transitions
\* and has been sampled successfully before
C2_Witness ==
    /\ buf_call.op = "sample"
    /\ buf_call.ret.status = "ValueError"
    /\ buffer.size > 0
    /\ buffer.size < buf_call.batch_size
    /\ buffer.frame_count > 0

\* C3: a successful sample returns exactly batch_size indices, pairwise
\* distinct, each below the current size, so each names a written slot.
C3_SampleIndicesValid ==
    (buf_call.op = "sample" /\ buf_call.ret.status = "ok") =>
        LET indices == buf_call.ret.indices
        IN  /\ Len(indices) = buf_call.batch_size
            /\ \A i, j \in DOMAIN indices : i # j => indices[i] # indices[j]
            /\ \A i \in DOMAIN indices :
                  /\ indices[i] >= 0
                  /\ indices[i] < buffer.size
                  /\ indices[i] < Len(ghost.added)

\* C3 witness: a full-size batch was drawn, in prioritized mode and after a
\* priority update, from a buffer that still has never-written slots
C3_Witness ==
    /\ buf_call.op = "sample"
    /\ buf_call.ret.status = "ok"
    /\ buf_call.batch_size = MaxBatch
    /\ buffer.use_per
    /\ buffer.max_priority > PriorityOne
    /\ buffer.size < buffer.capacity

-----------------------------------------------------------------------------
(* Properties of the PricingEnvironment (checked under SpecEnv)            *)

\* C4: step is guarded against use before any reset: a step call on an
\* environment on which reset was never called fails with an error.
C4_StepBeforeResetFails ==
    (env_call.op = "step" /\ ~ghost.reset_called) => env_call.status # "ok"

\* C5: a synthetic step leaves last_action and the row cursor unchanged.
C5_SyntheticStepFrame ==
    [][(/\ env_call' # env_call
        /\ env_call'.op = "step"
        /\ env_call'.use_synthetic)
       => (/\ env'.last_action = env.last_action
           /\ env'.current_idx = env.current_idx)]_vars

\* C5 witness: a synthetic step was taken with an action other than the
\* last real action, away from the constructor's cursor
C5_Witness ==
    /\ ghost.reset_called
    /\ env_call.op = "step"
    /\ env_call.use_synthetic
    /\ env.last_action >= 0
    /\ env_call.action # env.last_action
    /\ env.current_idx # 0

\* C6: no stability penalty is charged across the two regimes: a synthetic
\* step that follows a real step is not charged a penalty against that real
\* step's action, and a real step that follows a synthetic step is charged
\* against the last real action (if any), not against the synthetic one.
C6_NoCrossRegimePenalty ==
    /\ (/\ ghost.reset_called
        /\ env_call.op = "step" /\ env_call.use_synthetic
        /\ ghost.prev_env_call.op = "step" /\ ~ghost.prev_env_call.use_synthetic)
       => env_call.penalty = 0
    /\ (/\ ghost.reset_called
        /\ env_call.op = "step" /\ ~env_call.use_synthetic
        /\ ghost.prev_env_call.op = "step" /\ ghost.prev_env_call.use_synthetic)
       => env_call.penalty_against = ghost.real_before

-----------------------------------------------------------------------------
(* Properties of DQNTrainer.train (checked under Spec)                     *)

\* C7: a training step starts right after an environment step has been
\* stored and counted, exactly when the buffer then holds at least
\* warmup_steps transitions and the number of environment steps taken over
\* all episodes is a multiple of train_frequency; training starts nowhere
\* else, and total_steps is that cumulative count.
C7_TrainingTrigger ==
    [][ /\ trainer.pc = "count" =>
              /\ trainer'.total_steps = ghost.env_steps
              /\ (trainer'.pc = "train_sample") <=>
                    (/\ len(buffer) >= trainer.warmup_steps
                     /\ ghost.env_steps % trainer.train_frequency = 0)
        /\ trainer'.pc = "train_sample" => trainer.pc = "count"
        /\ ghost'.trains # ghost.trains =>
              /\ trainer.pc = "train_sample"
              /\ ghost'.trains = ghost.trains + 1 ]_vars

\* a training step in the second one-step episode of a run that trains every
\* second step: the cumulative count triggers it, the step index would not
C7_Witness ==
    /\ trainer.pc = "train_sample"
    /\ trainer.steps_per_episode = 1
    /\ trainer.train_frequency = 2
    /\ trainer.episode = 1
    /\ trainer.total_steps = 2

\* C8: every environment step of train() is followed by exactly one add,
\* whichever path it took: once the step is stored the numbers of add calls
\* and of environment steps agree, and the buffer holds
\* min(steps, capacity) transitions.
C8_EveryStepStored ==
    /\ ghost.adds = IF trainer.pc = "store" THEN ghost.env_steps - 1
                    ELSE ghost.env_steps
    /\ len(buffer) = Min(ghost.adds, buffer.capacity)
    /\ trainer.pc = "count" =>
          /\ buf_call.op = "add"
          /\ buf_call.seq = ghost.env_steps
          /\ buf_call.transition.action = env_call.action
          /\ buf_call.transition.next_state = env_call.next_state
          /\ buf_call.transition.reward = env_call.reward

\* a synthetic step has been stored after the buffer has wrapped around
C8_Witness ==
    /\ trainer.pc = "count"
    /\ env_call.op = "step"
    /\ env_call.use_synthetic
    /\ ghost.env_steps > buffer.capacity
    /\ ghost.adds = ghost.env_steps

\* the effects of one loop iteration, in the order of the code
IterationOrder == <<"select_action", "env_step", "add", "train_step">>

\* C9: an iteration acts in the order select action, environment step,
\* buffer insert, train step; epsilon decays once per episode, after the
\* last step and before the early stopping check, so all steps of an
\* episode select with one epsilon, and the transition of the iteration is
\* in the buffer when its train step samples.
C9_IterationOrder ==
    /\ [](/\ Len(ghost.log) <= Len(IterationOrder)
          /\ ghost.log = SubSeq(IterationOrder, 1, Len(ghost.log))
          /\ Cardinality(ghost.eps_selected) <= 1
          /\ ghost.decays = IF trainer.pc = "end_episode"
                            THEN Len(trainer.episode_rewards) + 1
                            ELSE Len(trainer.episode_rewards)
          /\ trainer.pc = "train_sample" =>
                /\ buf_call.op = "add"
                /\ buf_call.seq = ghost.env_steps
                /\ buffer.slots[(buffer.position + buffer.capacity - 1)
                                   % buffer.capacity] = buf_call.transition)
    /\ [][ /\ ghost'.decays # ghost.decays =>
                 /\ trainer.pc = "for_step"
                 /\ trainer.step = trainer.steps_per_episode
                 /\ trainer'.pc = "end_episode"
           /\ trainer'.episodes_without_improvement
                 # trainer.episodes_without_improvement =>
                 trainer.pc = "end_episode"
           /\ trainer'.epsilon # trainer.epsilon =>
                 ghost'.decays = ghost.decays + 1 ]_vars

\* the second step of an episode selects its action after the first step
\* of that episode has trained
C9_Witness ==
    /\ trainer.pc = "train_sample"
    /\ trainer.steps_per_episode = 2
    /\ trainer.step = 1
    /\ trainer.episode = 1
    /\ ghost.decays = 1
    /\ ghost.log = <<"select_action", "env_step", "add">>

\* the epsilon values of the run follow the schedule, one value per episode
EpsilonFollowsSchedule ==
    /\ Len(ghost.eps_history) = ghost.decays + 1
    /\ trainer.epsilon = ghost.eps_history[Len(ghost.eps_history)]
    /\ \A i \in 1..(Len(ghost.eps_history) - 1) :
          ghost.eps_history[i + 1] =
              Max(trainer.epsilon_end,
                  (ghost.eps_history[i] * trainer.epsilon_decay) \div 1000)

\* the epsilon values of the run never rise and never go below epsilon_end
EpsilonMonotoneFloored ==
    /\ \A i \in 1..(Len(ghost.eps_history) - 1) :
          ghost.eps_history[i + 1] <= ghost.eps_history[i]
    /\ \A i \in 1..Len(ghost.eps_history) :
          ghost.eps_history[i] >= trainer.epsilon_end

\* the configuration starts at or above the floor and does not grow epsilon
EpsilonConfigSane ==
    /\ ghost.eps_history[1] >= trainer.epsilon_end
    /\ trainer.epsilon_end >= 0
    /\ trainer.epsilon_decay >= 0
    /\ trainer.epsilon_decay <= 1000

\* C10 as stated: epsilon follows max(epsilon_end, epsilon * epsilon_decay)
\* once per episode, and the sequence of its values from epsilon_start on is
\* non-increasing and never below epsilon_end.
C10_EpsilonSchedule ==
    EpsilonFollowsSchedule /\ EpsilonMonotoneFloored

\* C10 amended: epsilon follows max(epsilon_end, epsilon * epsilon_decay)
\* once per episode; when epsilon_start >= epsilon_end >= 0 and
\* 0 <= epsilon_decay <= 1 the sequence of its values is non-increasing and
\* never below epsilon_end.
C10_EpsilonScheduleSaneConfig ==
    /\ EpsilonFollowsSchedule
    /\ EpsilonConfigSane => EpsilonMonotoneFloored

\* a run that starts above the floor and has been cut off at it
C10_Witness ==
    /\ EpsilonConfigSane
    /\ Len(ghost.eps_history) >= 3
    /\ ghost.eps_history[1] > ghost.eps_history[2]
    /\ ghost.eps_history[2] > trainer.epsilon_end
    /\ ghost.eps_history[3] = trainer.epsilon_end
    /\ (ghost.eps_history[2] * trainer.epsilon_decay) \div 1000
          < trainer.epsilon_end

\* the names of the checkpoints written so far, in order
SavedNames == [i \in DOMAIN trainer.saved |-> trainer.saved[i].filename]

-----------------------------------------------------------------------------
(* Properties of the episode loop (checked under SpecStopping)             *)

\* the length of the longest run of identical values that ends s
PlateauLength(s) ==
    IF s = <<>> THEN 0
    ELSE Cardinality({i \in 1..Len(s) : \A j \in i..Len(s) : s[j] = s[Len(s)]})

\* s rises strictly up to its final plateau
RisesThenPlateaus(s) ==
    /\ Len(s) > PlateauLength(s)
    /\ \A i \in 1..(Len(s) - PlateauLength(s)) : s[i] < s[i + 1]

\* the episode rewards so far rise and then stay on one value for
\* patience + window_size episodes, and the budget is longer than that
PlateauSeen ==
    /\ RisesThenPlateaus(trainer.episode_rewards)
    /\ PlateauLength(trainer.episode_rewards)
          >= trainer.patience + trainer.window_size
    /\ Len(trainer.episode_rewards) < trainer.episodes

\* the run was ended by the early stopping check
StoppedEarly ==
    /\ trainer.pc \in {"save_final", "done"}
    /\ Len(trainer.episode_rewards) < trainer.episodes
    /\ trainer.episodes_without_improvement >= trainer.patience

\* C12 as stated: once the episode rewards have risen and then stayed on
\* one value for patience + window_size episodes, the run has been ended by
\* early stopping with budget left, so no longer plateau is ever run.
C12_PlateauStops ==
    PlateauSeen => StoppedEarly

\* C12 amended: the same, for configurations with min_delta >= 0.
C12_PlateauStopsNonNegativeDelta ==
    (trainer.min_delta >= 0 /\ PlateauSeen) => StoppedEarly

\* a rise of two episodes and a plateau of patience + window_size = 3 more
\* ended the run one episode before its budget
C12_Witness ==
    /\ trainer.min_delta >= 0
    /\ trainer.patience + trainer.window_size = 3
    /\ Len(trainer.episode_rewards) = 4
    /\ PlateauLength(trainer.episode_rewards) = 3
    /\ PlateauSeen
    /\ StoppedEarly

-----------------------------------------------------------------------------
(* Properties of DQNTrainer.train, continued (checked under Spec)          *)

\* C13: a run of train() that has ended, by exhausting its budget or by
\* early stopping, has written final_model.pt exactly once, as the last
\* checkpoint of the run; a run that has not ended has not written it.
C13_FinalCheckpointOnce ==
    LET finals == {i \in DOMAIN SavedNames : SavedNames[i] = "final_model.pt"}
    IN  IF trainer.pc \in {"done", "raised"}
        THEN finals = {Len(SavedNames)} /\ Len(SavedNames) >= 1
        ELSE finals = {}

-----------------------------------------------------------------------------
(* Properties of the checkpoints (checked under SpecCheckpoint)            *)

\* C14: a trainer that has loaded model.pt has the epsilon, the total_steps
\* and the best_avg_reward the saving trainer had when it wrote the file.
C14_CheckpointRoundTrip ==
    (trainer.pc = "loaded" /\ ghost.loaded = "model.pt") =>
        /\ trainer.epsilon = ghost.at_save.epsilon
        /\ trainer.total_steps = ghost.at_save.total_steps
        /\ trainer.best_avg_reward = ghost.at_save.best_avg_reward

\* model.pt was written after training, and all three values differ from
\* those of a newly constructed trainer
C14_Witness ==
    /\ trainer.pc = "loaded"
    /\ ghost.loaded = "model.pt"
    /\ ghost.at_save.pc = "done"
    /\ trainer.epsilon # trainer.config.epsilon_start
    /\ trainer.total_steps > 0
    /\ trainer.best_avg_reward # NegInf

-----------------------------------------------------------------------------
(* Properties of the StateEncoder (checked under SpecEncoder)              *)

\* C15: encode_continuous of a row of the dataset returns 9 features, the
\* two season features within [-1, 1] and the other seven within [0, 1],
\* also for rows that carry the 0 sentinel.
C15_ContinuousInRange ==
    env_call.op = "encode_continuous" =>
        /\ Len(env_call.ret) = 9
        /\ \A i \in {3, 4} : env_call.ret[i] >= -1000 /\ env_call.ret[i] <= 1000
        /\ \A i \in {1, 2, 5, 6, 7, 8, 9} :
              env_call.ret[i] >= 0 /\ env_call.ret[i] <= 1000

\* the rows of the dataset with a non-zero inventory_level, with a non-zero
\* demand_forecast
WithInventory == {k \in DOMAIN env.encoder.rows :
                     env.encoder.rows[k].inventory_level # 0}
WithForecast == {k \in DOMAIN env.encoder.rows :
                    env.encoder.rows[k].demand_forecast # 0}

\* C16 as stated: the encoder is in extended mode exactly when more than
\* 10% of the rows have inventory_level and demand_forecast both non-zero
\* in the same row.
C16_ExtendedModeSameRow ==
    env.pc = "encoder" =>
    (env.encoder.has_extended_state <=>
        Cardinality(WithInventory \cap WithForecast) * 10
            > Len(env.encoder.rows))

\* C16 amended: the encoder is in extended mode exactly when more than 10%
\* of the rows have a non-zero inventory_level and more than 10% of the
\* rows have a non-zero demand_forecast, in the same rows or not.
C16_ExtendedModeSeparateCounts ==
    env.pc = "encoder" =>
    (env.encoder.has_extended_state <=>
        /\ Cardinality(WithInventory) * 10 > Len(env.encoder.rows)
        /\ Cardinality(WithForecast) * 10 > Len(env.encoder.rows))

\* ten rows, two with inventory_level and two others with demand_forecast:
\* extended mode without any row that has both
C16_Witness ==
    /\ env.pc = "encoder"
    /\ Len(env.encoder.rows) = 10
    /\ Cardinality(WithInventory) = 2
    /\ Cardinality(WithForecast) = 2
    /\ WithInventory \cap WithForecast = {}
    /\ env.encoder.has_extended_state

-----------------------------------------------------------------------------
(* Properties of the reward functions (checked under SpecReward)           *)

\* two compute_reward calls in a row that differ in the revenue only, or in
\* the margin only, the later with the larger value
RaisedRevenueOrMargin ==
    /\ env_call.op = "compute_reward"
    /\ ghost.prev_env_call.op = "compute_reward"
    /\ env_call.volume = ghost.prev_env_call.volume
    /\ \/ /\ env_call.margin = ghost.prev_env_call.margin
          /\ env_call.revenue > ghost.prev_env_call.revenue
       \/ /\ env_call.revenue = ghost.prev_env_call.revenue
          /\ env_call.margin > ghost.prev_env_call.margin

\* the revenue and the margin range of the environment are not inverted
RangesOrdered ==
    /\ env.revenue_range[1] <= env.revenue_range[2]
    /\ env.margin_range[1] <= env.margin_range[2]

\* C17 as stated: with the weights and ranges of the environment, a larger
\* revenue or a larger margin, everything else the same, never gives a
\* smaller reward.
C17_RewardMonotone ==
    RaisedRevenueOrMargin => env_call.ret >= ghost.prev_env_call.ret

\* C17 amended: the same for environments whose revenue and margin ranges
\* have min <= max (the weights are not negative).
C17_RewardMonotoneOrderedRanges ==
    (RangesOrdered /\ RaisedRevenueOrMargin) =>
        env_call.ret >= ghost.prev_env_call.ret

\* a larger margin gave a strictly larger reward
C17_Witness ==
    /\ RangesOrdered
    /\ RaisedRevenueOrMargin
    /\ env_call.margin > ghost.prev_env_call.margin
    /\ env_call.ret > ghost.prev_env_call.ret

\* C18: compute_price_change_penalty(prev, cur, w) is 0 when cur = prev and
\* when prev <= 0, and w * |cur - prev| / prev otherwise.
C18_PenaltyFormula ==
    env_call.op = "compute_price_change_penalty" =>
        LET prev == env_call.prev_multiplier
            cur == env_call.current_multiplier
            w == env_call.penalty_weight
        IN  /\ cur = prev => env_call.ret = 0
            /\ prev <= 0 => env_call.ret = 0
            /\ (prev > 0 /\ cur # prev) =>
                  /\ env_call.ret = (w * Abs(cur - prev)) \div prev
                  /\ env_call.ret * prev <= w * Abs(cur - prev)
                  /\ (env_call.ret + 1) * prev > w * Abs(cur - prev)

\* a change from 0.8 to 0.9 at weight 0.15 costs 0.15 * 0.1 / 0.8
C18_Witness ==
    /\ env_call.op = "compute_price_change_penalty"
    /\ env_call.prev_multiplier = 80
    /\ env_call.current_multiplier = 90
    /\ env_call.penalty_weight = 150
    /\ env_call.ret = 18

-----------------------------------------------------------------------------
(* Properties of the policy export (checked under SpecExport)              *)

\* the inventory and forecast bin counts the export runs over
ExportInventoryBins ==
    IF export.encoder.has_extended_state THEN export.disc_cfg.inventory_bins ELSE 1
ExportForecastBins ==
    IF export.encoder.has_extended_state THEN export.disc_cfg.forecast_bins ELSE 1

\* the points of the discretized state space of the export
ExportStateSpace ==
    [demandBin : 0..(export.disc_cfg.demand_bins - 1),
     competitorPriceBin : 0..(export.disc_cfg.competitor_bins - 1),
     seasonBin : 0..3,
     lagPriceBin : 0..(export.disc_cfg.lag_price_bins - 1),
     inventoryBin : 0..(ExportInventoryBins - 1),
     forecastBin : 0..(ExportForecastBins - 1)]

\* the flat index of a point: demand outermost, forecast innermost
FlatIndex(d) ==
    ((((d.demandBin * export.disc_cfg.competitor_bins + d.competitorPriceBin)
         * 4 + d.seasonBin)
        * export.disc_cfg.lag_price_bins + d.lagPriceBin)
       * ExportInventoryBins + d.inventoryBin)
      * ExportForecastBins + d.forecastBin

\* C19: the export lists every point of the discretized state space
\* (inventory and forecast dimensions exactly in extended mode) once, at
\* the flat index of the nested order demand, competitor, season, lag,
\* inventory, forecast; the number of points is get_total_discrete_states()
\* of the encoder, and the exported policy has the indices 0..K-1.
C19_ExportEnumeratesStateSpace ==
    export.pc \in {"query", "done"} =>
        LET K == Len(export.discrete_states)
        IN  /\ Range(export.discrete_states) = ExportStateSpace
            /\ K = Cardinality(ExportStateSpace)
            /\ \A i \in 1..K : FlatIndex(export.discrete_states[i]) = i - 1
            /\ K = get_total_discrete_states(export.encoder)
            /\ export.idx = Len(export.policy)
            /\ export.pc = "done" => Len(export.policy) = K

\* an export in extended mode with two bins everywhere has returned
C19_Witness ==
    /\ export.pc = "done"
    /\ export.encoder.has_extended_state
    /\ export.disc_cfg.demand_bins = 2
    /\ export.disc_cfg.lag_price_bins = 2
    /\ Len(export.policy) = 128

-----------------------------------------------------------------------------
(* Properties of the row cursor (checked under SpecEnv)                    *)

\* C20: the row cursor is always a row index; a real step moves it to
\* (cursor + 1) mod N and returns the state of the row at the new cursor,
\* and after every N consecutive real steps the cursor is where the run of
\* real steps started.
C20_CursorCycles ==
    /\ env.current_idx \in 0..(NumRows - 1)
    /\ (env_call.op = "step" /\ ~env_call.use_synthetic) =>
          /\ env.current_idx = (ghost.cursor_before + 1) % NumRows
          /\ env_call.next_state = RowState(env.current_idx)
    /\ (ghost.run_len > 0 /\ ghost.run_len % NumRows = 0) =>
          env.current_idx = ghost.run_start

\* a reset to the last row, a synthetic step, and then N real steps: the
\* cursor has wrapped around and is back on the last row
C20_Witness ==
    /\ ghost.reset_called
    /\ ghost.run_len = NumRows
    /\ ghost.run_start = NumRows - 1
    /\ env.current_idx = NumRows - 1
    /\ env_call.op = "step"
    /\ ~env_call.use_synthetic
    /\ ghost.calls = NumRows + 2

-----------------------------------------------------------------------------
(* Properties of last_action (checked under SpecEnv)                       *)

\* the reward of the last step before the stability penalty
BaseReward ==
    compute_reward(env_call.info.revenue, env_call.info.margin,
                   env_call.info.volume, RewardWeights,
                   revenue_range, margin_range, volume_range)

\* C21: last_action is the action of the most recent real step since the
\* last reset, or -1 (none); the reward of a real step is the base reward
\* minus the penalty against the multiplier of that previous real step when
\* there is one, and the base reward itself otherwise, so the first real
\* step after a reset is not penalized.
C21_LastActionPenalty ==
    /\ env.last_action = ghost.real_last
    /\ env_call.op = "reset" => env.last_action = -1
    /\ (env_call.op = "step" /\ ~env_call.use_synthetic) =>
          /\ env.last_action = env_call.action
          /\ env_call.penalty_against = ghost.real_before
          /\ env_call.reward = BaseReward -
                IF ghost.real_before >= 0
                THEN compute_price_change_penalty(
                         action_multipliers[ghost.real_before],
                         action_multipliers[env_call.action],
                         PriceChangePenalty)
                ELSE 0

\* a real step with another action follows a real step and is penalized;
\* both came after a reset
C21_Witness ==
    /\ ghost.reset_called
    /\ ghost.prev_env_call.op = "step"
    /\ ~ghost.prev_env_call.use_synthetic
    /\ env_call.op = "step"
    /\ ~env_call.use_synthetic
    /\ ghost.real_before >= 0
    /\ ghost.real_before # env_call.action
    /\ env_call.reward < BaseReward

-----------------------------------------------------------------------------
(* Properties of the actions of a training run (checked under Spec)        *)

ActionIndices == 0..(get_action_dim - 1)

\* C22: the action train() selects, every transition it passes to add and
\* every transition the buffer holds has an action index in
\* [0, num_actions) and done = FALSE, on the real and on the synthetic
\* path; the environment's last_action is -1 (none) or such an index.
C22_ActionsInRange ==
    /\ trainer.pc \in {"env_step", "store"} => trainer.action \in ActionIndices
    /\ env_call.op = "step" => (env_call.action \in ActionIndices /\ ~env_call.done)
    /\ buf_call.op = "add" =>
          /\ buf_call.transition.action \in ActionIndices
          /\ buf_call.transition.done = FALSE
    /\ \A i \in 0..(len(buffer) - 1) :
          /\ buffer.slots[i].action \in ActionIndices
          /\ buffer.slots[i].done = FALSE
    /\ env.last_action \in {-1} \cup ActionIndices

\* transitions of a real and of a synthetic step with the last action index
\* are both in the buffer
C22_Witness ==
    /\ len(buffer) >= 2
    /\ \E i, j \in 0..(len(buffer) - 1) :
          /\ buffer.slots[i].action = get_action_dim - 1
          /\ buffer.slots[i].next_state.src = "row"
          /\ buffer.slots[j].next_state.src = "synthetic"
    /\ env.last_action = get_action_dim - 1

-----------------------------------------------------------------------------
(* Properties of the priorities (checked under SpecBuffer)                 *)

\* the slot the last add wrote
LastWritten == (buffer.position + buffer.capacity - 1) % buffer.capacity

\* C23: with prioritization enabled, max_priority is at least the priority
\* of every filled slot, the slot an add has written carries max_priority
\* (on wraparound too), and no operation lowers max_priority.
C23_MaxPriority ==
    /\ [](buffer.use_per =>
            /\ \A i \in 0..(buffer.size - 1) :
                  buffer.priorities[i] <= buffer.max_priority
            /\ buf_call.op = "add" =>
                  buffer.priorities[LastWritten] = buffer.max_priority)
    /\ [][buffer.use_per => buffer'.max_priority >= buffer.max_priority]_vars

\* an add overwrites the oldest slot after update_priorities has raised
\* max_priority and lowered the priority of another slot
C23_Witness ==
    /\ buffer.use_per
    /\ buf_call.op = "add"
    /\ Len(ghost.added) > buffer.capacity
    /\ buffer.max_priority > PriorityOne
    /\ buffer.priorities[LastWritten] = buffer.max_priority
    /\ \E i \in 0..(buffer.size - 1) : buffer.priorities[i] < PriorityOne

-----------------------------------------------------------------------------
(* Properties of beta (checked under SpecBeta)                             *)

\* beta after k successful sample calls (1e-3)
BetaAfter(k) ==
    buffer.beta_start
    + ((buffer.beta_end - buffer.beta_start)
       * Min(1000, (k * 1000) \div buffer.beta_frames)) \div 1000

\* beta follows the formula and is changed by successful sample calls only
BetaFollowsFormula ==
    /\ [](/\ buffer.beta = BetaAfter(ghost.samples)
          /\ ghost.samples >= buffer.beta_frames => buffer.beta = buffer.beta_end)
    /\ [][buffer'.beta # buffer.beta =>
             (buf_call'.op = "sample" /\ buf_call'.ret.status = "ok")]_vars

\* beta does not decrease and does not exceed beta_end
BetaMonotoneClamped ==
    /\ [](buffer.beta <= buffer.beta_end)
    /\ [][buffer'.beta >= buffer.beta]_vars

-----------------------------------------------------------------------------
(* Properties of _quantile_bins (checked under SpecQuantile)               *)

\* the value at position p (from 1) of the array in ascending order
ValueAtPosition(values, p) ==
    CHOOSE v \in Range(values) :
        /\ Cardinality({k \in DOMAIN values : values[k] < v}) < p
        /\ p <= Cardinality({k \in DOMAIN values : values[k] <= v})

\* C25 as stated: threshold i is the value at position ceil(i N / num_bins)
\* of the sorted array, for i in 1..num_bins-1.
C25_QuantileCeil ==
    env_call.op = "_quantile_bins" =>
        LET N == Len(env_call.values)
            B == env_call.num_bins
        IN  /\ Len(env_call.ret) = B - 1
            /\ \A i \in 1..(B - 1) :
                  env_call.ret[i] =
                      ValueAtPosition(env_call.values, (i * N + B - 1) \div B)

\* C25, amended: threshold i is the value at position floor(i N / num_bins)
\* + 1 of the sorted array, that is at the 0-based index int(i N / num_bins).
C25_QuantileFloorPlusOne ==
    env_call.op = "_quantile_bins" =>
        LET N == Len(env_call.values)
            B == env_call.num_bins
        IN  /\ Len(env_call.ret) = B - 1
            /\ \A i \in 1..(B - 1) :
                  env_call.ret[i] =
                      ValueAtPosition(env_call.values, ((i * N) \div B) + 1)

\* two unsorted values and two bins: the threshold is the larger value, at
\* position 2, where ceil(i N / num_bins) is 1
C25_Witness ==
    /\ env_call.op = "_quantile_bins"
    /\ env_call.values = <<2, 1>>
    /\ env_call.num_bins = 2
    /\ env_call.ret = <<2>>

-----------------------------------------------------------------------------
(* Properties of a training step (checked under Spec)                      *)

\* the training steps whose optimizer step has been applied, and those
\* whose soft update has been applied
OptimizerSteps ==
    IF trainer.pc \in {"train_optimize", "raised"}
    THEN ghost.trains - 1 ELSE ghost.trains
SoftUpdates ==
    IF trainer.pc \in {"train_optimize", "train_soft_update", "raised"}
    THEN ghost.trains - 1 ELSE ghost.trains

\* C26: a training step samples, then steps the optimizer, then soft
\* updates the target, then updates the priorities of the indices its
\* sample returned, and the buffer is not called in between; the target
\* parameters start as a copy of the online ones and change by one soft
\* update per training step only, the online ones by the optimizer step only.
C26_TrainStepOrder ==
    /\ [](/\ trainer.online_net = OptimizerSteps
          /\ Len(trainer.target_net) = SoftUpdates + 1
          /\ trainer.target_net[1] = 0
          /\ \A k \in 2..Len(trainer.target_net) : trainer.target_net[k] = k - 1
          /\ trainer.pc \in {"train_optimize", "train_soft_update",
                             "train_update_priorities"} =>
                /\ buf_call.op = "sample"
                /\ buf_call.ret.status = "ok"
                /\ buf_call.seq = ghost.trains
                /\ trainer.indices = buf_call.ret.indices)
    /\ [][/\ trainer'.online_net # trainer.online_net =>
                /\ trainer.pc = "train_optimize"
                /\ trainer'.pc = "train_soft_update"
          /\ trainer'.target_net # trainer.target_net =>
                /\ trainer.pc = "train_soft_update"
                /\ trainer'.pc = "train_update_priorities"
                /\ trainer'.target_net = Append(trainer.target_net, trainer.online_net)
          /\ buf_call'.op = "update_priorities" /\ buf_call' # buf_call =>
                /\ trainer.pc = "train_update_priorities"
                /\ buf_call.op = "sample"
                /\ buf_call'.seq = buf_call.seq
                /\ buf_call'.indices = buf_call.ret.indices
          /\ trainer.pc \in {"train_optimize", "train_soft_update"} =>
                (buffer' = buffer /\ buf_call' = buf_call) ]_vars

\* the second training step of a run has updated the priorities of its
\* batch
C26_Witness ==
    /\ buf_call.op = "update_priorities"
    /\ buf_call.seq = 2
    /\ trainer.online_net = 2
    /\ trainer.target_net = <<0, 1, 2>>
    /\ trainer.pc = "for_step"

\* C27: whenever train() is about to call buffer.sample the buffer holds at
\* least batch_size transitions, and no run ends with the buffer's
\* insufficient data error.
C27_SampleNeverFails ==
    /\ trainer.pc = "train_sample" => len(buffer) >= trainer.batch_size
    /\ ~(trainer.pc = "raised" /\ buf_call.op = "sample"
         /\ buf_call.ret.status = "ValueError")

\* C28: the state train() passed to action selection and stores as the
\* state of the transition is the encoding of the market conditions the
\* environment computed the step's demand and reward from: the row at the
\* cursor on the real path, the sampled discrete state on the synthetic one.
C28_StateIsMarketOfStep ==
    /\ trainer.pc = "store" => trainer.state = env_call.market
    /\ (trainer.pc = "count" /\ buf_call.op = "add") =>
          buf_call.transition.state = env_call.market

\* C29: the epsilon the returned metrics report for an episode is the
\* epsilon action selection used during that episode.
C29_MetricsEpsilon ==
    trainer.pc = "done" =>
        /\ Len(trainer.metrics) = Len(trainer.episode_rewards)
        /\ \A k \in DOMAIN trainer.metrics :
              trainer.metrics[k].epsilon = ghost.eps_history[k]

-----------------------------------------------------------------------------
(* Properties of the start of early stopping (checked under SpecStopping)  *)

\* early stopping does not end a run before window_size + patience
\* episodes: the counter is 0 while fewer than window_size episodes have
\* completed and is at most the number of episodes completed since
EarlyStoppingNeedsWindowAndPatience ==
    /\ StoppedEarly =>
          Len(trainer.episode_rewards) >= trainer.window_size + trainer.patience
    /\ Len(trainer.episode_rewards) < trainer.window_size =>
          trainer.episodes_without_improvement = 0
    /\ trainer.episodes_without_improvement
          <= Max(0, Len(trainer.episode_rewards) - trainer.window_size)

\* the first check on a full window has counted as an improvement: it left
\* the counter at 0, made the window mean the best and saved best_model.pt
FirstCheckImproves ==
    (/\ Len(trainer.episode_rewards) = Max(1, trainer.window_size)
     /\ trainer.pc # "end_episode") =>
        /\ trainer.episodes_without_improvement = 0
        /\ trainer.best_avg_reward = window_mean(trainer.episode_rewards)
        /\ "best_model.pt" \in Range(SavedNames)

\* C30 as stated: on a new trainer early stopping cannot trigger before
\* window_size + patience episodes have completed; the counter stays 0
\* until the window is full, the first check on a full window always counts
\* as an improvement, and patience further episodes without one are needed.
C30_EarlyStoppingNotBefore ==
    EarlyStoppingNeedsWindowAndPatience /\ FirstCheckImproves

\* C30, amended: the same, the first check counting as an improvement for
\* window_size >= 1.
C30_EarlyStoppingNotBeforeWindowed ==
    /\ EarlyStoppingNeedsWindowAndPatience
    /\ trainer.window_size >= 1 => FirstCheckImproves

\* a run with window_size 2 and patience 2 was stopped after exactly four
\* episodes, the last two without improvement
C30_Witness ==
    /\ StoppedEarly
    /\ trainer.pc = "done"
    /\ trainer.window_size = 2
    /\ trainer.patience = 2
    /\ Len(trainer.episode_rewards) = 4
    /\ trainer.episodes_without_improvement = 2

====
